---- MODULE Spec2Model ----
(***************************************************************************)
(* Background blur pipeline of the Cloudy toolkit                          *)
(* (cloudy/src/main/cpp/BackgroundBlur.cpp).                               *)
(*                                                                         *)
(* Numbers of type float are modelled as exact rationals <<num, den>> with *)
(* den > 0.  The inputs are small dyadic values, which float represents    *)
(* exactly.  Values of type size_t are modelled with a machine word of     *)
(* WordBits bits, so that the sums and differences that can wrap do wrap.  *)
(***************************************************************************)
EXTENDS Integers, Sequences, FiniteSets, TLC

(***************************************************************************)
(* GammaLUT::srgbToLinear (BackgroundBlur.cpp:42-49), as built by the      *)
(* constructor in float arithmetic.  Entry i+1 is srgbToLinear[i] in units *)
(* of 1/65520 (16 steps per entry of the 4095-step output table), rounded  *)
(* to the nearest unit; the entries for 0 and 255 are exact.               *)
(***************************************************************************)
srgbToLinear ==
  <<
     0, 20, 40, 60, 80, 99, 119, 139, 159, 179, 199, 219, 241, 264, 288, 313,
     339, 367, 396, 427, 458, 491, 526, 561, 598, 637, 677, 718, 761, 805, 851, 898,
     946, 996, 1048, 1101, 1156, 1212, 1270, 1329, 1390, 1453, 1517, 1583, 1650, 1719, 1790, 1862,
     1937, 2012, 2090, 2169, 2250, 2333, 2417, 2503, 2591, 2681, 2772, 2866, 2961, 3057, 3156, 3257,
     3359, 3463, 3570, 3678, 3787, 3899, 4013, 4128, 4246, 4365, 4487, 4610, 4735, 4862, 4992, 5123,
     5256, 5391, 5528, 5668, 5809, 5952, 6097, 6245, 6394, 6545, 6699, 6854, 7012, 7172, 7334, 7498,
     7664, 7832, 8003, 8175, 8350, 8527, 8706, 8887, 9070, 9256, 9443, 9633, 9825, 10020, 10216, 10415,
     10616, 10819, 11025, 11233, 11443, 11655, 11870, 12087, 12306, 12528, 12751, 12978, 13206, 13437, 13670, 13905,
     14143, 14383, 14626, 14871, 15118, 15368, 15620, 15874, 16131, 16390, 16652, 16916, 17183, 17452, 17723, 17997,
     18273, 18552, 18833, 19117, 19403, 19692, 19983, 20276, 20573, 20871, 21172, 21476, 21782, 22091, 22402, 22716,
     23032, 23351, 23673, 23997, 24323, 24653, 24984, 25319, 25656, 25995, 26338, 26682, 27030, 27380, 27733, 28088,
     28446, 28806, 29170, 29535, 29904, 30275, 30649, 31026, 31405, 31787, 32172, 32559, 32949, 33342, 33737, 34136,
     34537, 34940, 35347, 35756, 36168, 36582, 37000, 37420, 37843, 38269, 38697, 39129, 39563, 40000, 40439, 40882,
     41327, 41775, 42226, 42680, 43137, 43596, 44058, 44524, 44992, 45462, 45936, 46413, 46892, 47375, 47860, 48348,
     48839, 49333, 49830, 50329, 50832, 51337, 51846, 52357, 52872, 53389, 53909, 54432, 54958, 55487, 56019, 56554,
     57092, 57633, 58177, 58724, 59273, 59826, 60382, 60941, 61503, 62068, 62635, 63206, 63780, 64357, 64937, 65520
  >>

(***************************************************************************)
(* GammaLUT::linearToSrgb (BackgroundBlur.cpp:52-61): entry i+1 is         *)
(* linearToSrgb[i], the table the constructor builds.                      *)
(***************************************************************************)
linearToSrgb ==
  <<
     0, 1, 2, 2, 3, 4, 5, 6, 6, 7, 8, 9, 10, 10, 11, 12, 13, 13, 14, 15, 15, 16, 16, 17, 18, 18, 19, 19, 20, 20, 21, 21,
     22, 22, 23, 23, 23, 24, 24, 25, 25, 25, 26, 26, 27, 27, 27, 28, 28, 29, 29, 29, 30, 30, 30, 31, 31, 31, 32, 32, 32, 33, 33, 33,
     34, 34, 34, 34, 35, 35, 35, 36, 36, 36, 37, 37, 37, 37, 38, 38, 38, 38, 39, 39, 39, 40, 40, 40, 40, 41, 41, 41, 41, 42, 42, 42,
     42, 43, 43, 43, 43, 43, 44, 44, 44, 44, 45, 45, 45, 45, 46, 46, 46, 46, 46, 47, 47, 47, 47, 48, 48, 48, 48, 48, 49, 49, 49, 49,
     49, 50, 50, 50, 50, 50, 51, 51, 51, 51, 51, 52, 52, 52, 52, 52, 53, 53, 53, 53, 53, 54, 54, 54, 54, 54, 55, 55, 55, 55, 55, 55,
     56, 56, 56, 56, 56, 57, 57, 57, 57, 57, 57, 58, 58, 58, 58, 58, 58, 59, 59, 59, 59, 59, 59, 60, 60, 60, 60, 60, 60, 61, 61, 61,
     61, 61, 61, 62, 62, 62, 62, 62, 62, 63, 63, 63, 63, 63, 63, 64, 64, 64, 64, 64, 64, 64, 65, 65, 65, 65, 65, 65, 66, 66, 66, 66,
     66, 66, 66, 67, 67, 67, 67, 67, 67, 67, 68, 68, 68, 68, 68, 68, 68, 69, 69, 69, 69, 69, 69, 69, 70, 70, 70, 70, 70, 70, 70, 71,
     71, 71, 71, 71, 71, 71, 72, 72, 72, 72, 72, 72, 72, 72, 73, 73, 73, 73, 73, 73, 73, 74, 74, 74, 74, 74, 74, 74, 74, 75, 75, 75,
     75, 75, 75, 75, 75, 76, 76, 76, 76, 76, 76, 76, 77, 77, 77, 77, 77, 77, 77, 77, 78, 78, 78, 78, 78, 78, 78, 78, 78, 79, 79, 79,
     79, 79, 79, 79, 79, 80, 80, 80, 80, 80, 80, 80, 80, 81, 81, 81, 81, 81, 81, 81, 81, 81, 82, 82, 82, 82, 82, 82, 82, 82, 83, 83,
     83, 83, 83, 83, 83, 83, 83, 84, 84, 84, 84, 84, 84, 84, 84, 84, 85, 85, 85, 85, 85, 85, 85, 85, 85, 86, 86, 86, 86, 86, 86, 86,
     86, 86, 87, 87, 87, 87, 87, 87, 87, 87, 87, 88, 88, 88, 88, 88, 88, 88, 88, 88, 88, 89, 89, 89, 89, 89, 89, 89, 89, 89, 90, 90,
     90, 90, 90, 90, 90, 90, 90, 90, 91, 91, 91, 91, 91, 91, 91, 91, 91, 91, 92, 92, 92, 92, 92, 92, 92, 92, 92, 92, 93, 93, 93, 93,
     93, 93, 93, 93, 93, 93, 94, 94, 94, 94, 94, 94, 94, 94, 94, 94, 95, 95, 95, 95, 95, 95, 95, 95, 95, 95, 96, 96, 96, 96, 96, 96,
     96, 96, 96, 96, 96, 97, 97, 97, 97, 97, 97, 97, 97, 97, 97, 98, 98, 98, 98, 98, 98, 98, 98, 98, 98, 98, 99, 99, 99, 99, 99, 99,
     99, 99, 99, 99, 99, 100, 100, 100, 100, 100, 100, 100, 100, 100, 100, 100, 101, 101, 101, 101, 101, 101, 101, 101, 101, 101, 101, 102, 102, 102, 102, 102,
     102, 102, 102, 102, 102, 102, 103, 103, 103, 103, 103, 103, 103, 103, 103, 103, 103, 103, 104, 104, 104, 104, 104, 104, 104, 104, 104, 104, 104, 105, 105, 105,
     105, 105, 105, 105, 105, 105, 105, 105, 105, 106, 106, 106, 106, 106, 106, 106, 106, 106, 106, 106, 106, 107, 107, 107, 107, 107, 107, 107, 107, 107, 107, 107,
     107, 108, 108, 108, 108, 108, 108, 108, 108, 108, 108, 108, 108, 109, 109, 109, 109, 109, 109, 109, 109, 109, 109, 109, 109, 110, 110, 110, 110, 110, 110, 110,
     110, 110, 110, 110, 110, 111, 111, 111, 111, 111, 111, 111, 111, 111, 111, 111, 111, 111, 112, 112, 112, 112, 112, 112, 112, 112, 112, 112, 112, 112, 113, 113,
     113, 113, 113, 113, 113, 113, 113, 113, 113, 113, 113, 114, 114, 114, 114, 114, 114, 114, 114, 114, 114, 114, 114, 114, 115, 115, 115, 115, 115, 115, 115, 115,
     115, 115, 115, 115, 115, 116, 116, 116, 116, 116, 116, 116, 116, 116, 116, 116, 116, 116, 117, 117, 117, 117, 117, 117, 117, 117, 117, 117, 117, 117, 117, 117,
     118, 118, 118, 118, 118, 118, 118, 118, 118, 118, 118, 118, 118, 119, 119, 119, 119, 119, 119, 119, 119, 119, 119, 119, 119, 119, 119, 120, 120, 120, 120, 120,
     120, 120, 120, 120, 120, 120, 120, 120, 120, 121, 121, 121, 121, 121, 121, 121, 121, 121, 121, 121, 121, 121, 122, 122, 122, 122, 122, 122, 122, 122, 122, 122,
     122, 122, 122, 122, 122, 123, 123, 123, 123, 123, 123, 123, 123, 123, 123, 123, 123, 123, 123, 124, 124, 124, 124, 124, 124, 124, 124, 124, 124, 124, 124, 124,
     124, 125, 125, 125, 125, 125, 125, 125, 125, 125, 125, 125, 125, 125, 125, 125, 126, 126, 126, 126, 126, 126, 126, 126, 126, 126, 126, 126, 126, 126, 127, 127,
     127, 127, 127, 127, 127, 127, 127, 127, 127, 127, 127, 127, 127, 128, 128, 128, 128, 128, 128, 128, 128, 128, 128, 128, 128, 128, 128, 128, 129, 129, 129, 129,
     129, 129, 129, 129, 129, 129, 129, 129, 129, 129, 129, 130, 130, 130, 130, 130, 130, 130, 130, 130, 130, 130, 130, 130, 130, 130, 131, 131, 131, 131, 131, 131,
     131, 131, 131, 131, 131, 131, 131, 131, 131, 131, 132, 132, 132, 132, 132, 132, 132, 132, 132, 132, 132, 132, 132, 132, 132, 133, 133, 133, 133, 133, 133, 133,
     133, 133, 133, 133, 133, 133, 133, 133, 133, 134, 134, 134, 134, 134, 134, 134, 134, 134, 134, 134, 134, 134, 134, 134, 134, 135, 135, 135, 135, 135, 135, 135,
     135, 135, 135, 135, 135, 135, 135, 135, 135, 136, 136, 136, 136, 136, 136, 136, 136, 136, 136, 136, 136, 136, 136, 136, 136, 137, 137, 137, 137, 137, 137, 137,
     137, 137, 137, 137, 137, 137, 137, 137, 137, 138, 138, 138, 138, 138, 138, 138, 138, 138, 138, 138, 138, 138, 138, 138, 138, 139, 139, 139, 139, 139, 139, 139,
     139, 139, 139, 139, 139, 139, 139, 139, 139, 139, 140, 140, 140, 140, 140, 140, 140, 140, 140, 140, 140, 140, 140, 140, 140, 140, 140, 141, 141, 141, 141, 141,
     141, 141, 141, 141, 141, 141, 141, 141, 141, 141, 141, 141, 142, 142, 142, 142, 142, 142, 142, 142, 142, 142, 142, 142, 142, 142, 142, 142, 142, 143, 143, 143,
     143, 143, 143, 143, 143, 143, 143, 143, 143, 143, 143, 143, 143, 143, 144, 144, 144, 144, 144, 144, 144, 144, 144, 144, 144, 144, 144, 144, 144, 144, 144, 145,
     145, 145, 145, 145, 145, 145, 145, 145, 145, 145, 145, 145, 145, 145, 145, 145, 145, 146, 146, 146, 146, 146, 146, 146, 146, 146, 146, 146, 146, 146, 146, 146,
     146, 146, 147, 147, 147, 147, 147, 147, 147, 147, 147, 147, 147, 147, 147, 147, 147, 147, 147, 147, 148, 148, 148, 148, 148, 148, 148, 148, 148, 148, 148, 148,
     148, 148, 148, 148, 148, 148, 149, 149, 149, 149, 149, 149, 149, 149, 149, 149, 149, 149, 149, 149, 149, 149, 149, 149, 150, 150, 150, 150, 150, 150, 150, 150,
     150, 150, 150, 150, 150, 150, 150, 150, 150, 150, 150, 151, 151, 151, 151, 151, 151, 151, 151, 151, 151, 151, 151, 151, 151, 151, 151, 151, 151, 152, 152, 152,
     152, 152, 152, 152, 152, 152, 152, 152, 152, 152, 152, 152, 152, 152, 152, 152, 153, 153, 153, 153, 153, 153, 153, 153, 153, 153, 153, 153, 153, 153, 153, 153,
     153, 153, 154, 154, 154, 154, 154, 154, 154, 154, 154, 154, 154, 154, 154, 154, 154, 154, 154, 154, 154, 155, 155, 155, 155, 155, 155, 155, 155, 155, 155, 155,
     155, 155, 155, 155, 155, 155, 155, 155, 156, 156, 156, 156, 156, 156, 156, 156, 156, 156, 156, 156, 156, 156, 156, 156, 156, 156, 156, 156, 157, 157, 157, 157,
     157, 157, 157, 157, 157, 157, 157, 157, 157, 157, 157, 157, 157, 157, 157, 158, 158, 158, 158, 158, 158, 158, 158, 158, 158, 158, 158, 158, 158, 158, 158, 158,
     158, 158, 159, 159, 159, 159, 159, 159, 159, 159, 159, 159, 159, 159, 159, 159, 159, 159, 159, 159, 159, 159, 160, 160, 160, 160, 160, 160, 160, 160, 160, 160,
     160, 160, 160, 160, 160, 160, 160, 160, 160, 160, 161, 161, 161, 161, 161, 161, 161, 161, 161, 161, 161, 161, 161, 161, 161, 161, 161, 161, 161, 161, 162, 162,
     162, 162, 162, 162, 162, 162, 162, 162, 162, 162, 162, 162, 162, 162, 162, 162, 162, 162, 163, 163, 163, 163, 163, 163, 163, 163, 163, 163, 163, 163, 163, 163,
     163, 163, 163, 163, 163, 163, 164, 164, 164, 164, 164, 164, 164, 164, 164, 164, 164, 164, 164, 164, 164, 164, 164, 164, 164, 164, 164, 165, 165, 165, 165, 165,
     165, 165, 165, 165, 165, 165, 165, 165, 165, 165, 165, 165, 165, 165, 165, 165, 166, 166, 166, 166, 166, 166, 166, 166, 166, 166, 166, 166, 166, 166, 166, 166,
     166, 166, 166, 166, 167, 167, 167, 167, 167, 167, 167, 167, 167, 167, 167, 167, 167, 167, 167, 167, 167, 167, 167, 167, 167, 168, 168, 168, 168, 168, 168, 168,
     168, 168, 168, 168, 168, 168, 168, 168, 168, 168, 168, 168, 168, 168, 168, 169, 169, 169, 169, 169, 169, 169, 169, 169, 169, 169, 169, 169, 169, 169, 169, 169,
     169, 169, 169, 169, 170, 170, 170, 170, 170, 170, 170, 170, 170, 170, 170, 170, 170, 170, 170, 170, 170, 170, 170, 170, 170, 171, 171, 171, 171, 171, 171, 171,
     171, 171, 171, 171, 171, 171, 171, 171, 171, 171, 171, 171, 171, 171, 171, 172, 172, 172, 172, 172, 172, 172, 172, 172, 172, 172, 172, 172, 172, 172, 172, 172,
     172, 172, 172, 172, 172, 173, 173, 173, 173, 173, 173, 173, 173, 173, 173, 173, 173, 173, 173, 173, 173, 173, 173, 173, 173, 173, 173, 174, 174, 174, 174, 174,
     174, 174, 174, 174, 174, 174, 174, 174, 174, 174, 174, 174, 174, 174, 174, 174, 174, 175, 175, 175, 175, 175, 175, 175, 175, 175, 175, 175, 175, 175, 175, 175,
     175, 175, 175, 175, 175, 175, 175, 176, 176, 176, 176, 176, 176, 176, 176, 176, 176, 176, 176, 176, 176, 176, 176, 176, 176, 176, 176, 176, 176, 176, 177, 177,
     177, 177, 177, 177, 177, 177, 177, 177, 177, 177, 177, 177, 177, 177, 177, 177, 177, 177, 177, 177, 178, 178, 178, 178, 178, 178, 178, 178, 178, 178, 178, 178,
     178, 178, 178, 178, 178, 178, 178, 178, 178, 178, 178, 179, 179, 179, 179, 179, 179, 179, 179, 179, 179, 179, 179, 179, 179, 179, 179, 179, 179, 179, 179, 179,
     179, 179, 180, 180, 180, 180, 180, 180, 180, 180, 180, 180, 180, 180, 180, 180, 180, 180, 180, 180, 180, 180, 180, 180, 180, 181, 181, 181, 181, 181, 181, 181,
     181, 181, 181, 181, 181, 181, 181, 181, 181, 181, 181, 181, 181, 181, 181, 181, 182, 182, 182, 182, 182, 182, 182, 182, 182, 182, 182, 182, 182, 182, 182, 182,
     182, 182, 182, 182, 182, 182, 182, 182, 183, 183, 183, 183, 183, 183, 183, 183, 183, 183, 183, 183, 183, 183, 183, 183, 183, 183, 183, 183, 183, 183, 183, 184,
     184, 184, 184, 184, 184, 184, 184, 184, 184, 184, 184, 184, 184, 184, 184, 184, 184, 184, 184, 184, 184, 184, 184, 185, 185, 185, 185, 185, 185, 185, 185, 185,
     185, 185, 185, 185, 185, 185, 185, 185, 185, 185, 185, 185, 185, 185, 185, 186, 186, 186, 186, 186, 186, 186, 186, 186, 186, 186, 186, 186, 186, 186, 186, 186,
     186, 186, 186, 186, 186, 186, 186, 187, 187, 187, 187, 187, 187, 187, 187, 187, 187, 187, 187, 187, 187, 187, 187, 187, 187, 187, 187, 187, 187, 187, 187, 187,
     188, 188, 188, 188, 188, 188, 188, 188, 188, 188, 188, 188, 188, 188, 188, 188, 188, 188, 188, 188, 188, 188, 188, 188, 189, 189, 189, 189, 189, 189, 189, 189,
     189, 189, 189, 189, 189, 189, 189, 189, 189, 189, 189, 189, 189, 189, 189, 189, 189, 190, 190, 190, 190, 190, 190, 190, 190, 190, 190, 190, 190, 190, 190, 190,
     190, 190, 190, 190, 190, 190, 190, 190, 190, 190, 191, 191, 191, 191, 191, 191, 191, 191, 191, 191, 191, 191, 191, 191, 191, 191, 191, 191, 191, 191, 191, 191,
     191, 191, 192, 192, 192, 192, 192, 192, 192, 192, 192, 192, 192, 192, 192, 192, 192, 192, 192, 192, 192, 192, 192, 192, 192, 192, 192, 192, 193, 193, 193, 193,
     193, 193, 193, 193, 193, 193, 193, 193, 193, 193, 193, 193, 193, 193, 193, 193, 193, 193, 193, 193, 193, 194, 194, 194, 194, 194, 194, 194, 194, 194, 194, 194,
     194, 194, 194, 194, 194, 194, 194, 194, 194, 194, 194, 194, 194, 194, 195, 195, 195, 195, 195, 195, 195, 195, 195, 195, 195, 195, 195, 195, 195, 195, 195, 195,
     195, 195, 195, 195, 195, 195, 195, 195, 196, 196, 196, 196, 196, 196, 196, 196, 196, 196, 196, 196, 196, 196, 196, 196, 196, 196, 196, 196, 196, 196, 196, 196,
     196, 196, 197, 197, 197, 197, 197, 197, 197, 197, 197, 197, 197, 197, 197, 197, 197, 197, 197, 197, 197, 197, 197, 197, 197, 197, 197, 197, 198, 198, 198, 198,
     198, 198, 198, 198, 198, 198, 198, 198, 198, 198, 198, 198, 198, 198, 198, 198, 198, 198, 198, 198, 198, 198, 199, 199, 199, 199, 199, 199, 199, 199, 199, 199,
     199, 199, 199, 199, 199, 199, 199, 199, 199, 199, 199, 199, 199, 199, 199, 199, 200, 200, 200, 200, 200, 200, 200, 200, 200, 200, 200, 200, 200, 200, 200, 200,
     200, 200, 200, 200, 200, 200, 200, 200, 200, 200, 200, 201, 201, 201, 201, 201, 201, 201, 201, 201, 201, 201, 201, 201, 201, 201, 201, 201, 201, 201, 201, 201,
     201, 201, 201, 201, 201, 201, 202, 202, 202, 202, 202, 202, 202, 202, 202, 202, 202, 202, 202, 202, 202, 202, 202, 202, 202, 202, 202, 202, 202, 202, 202, 202,
     202, 203, 203, 203, 203, 203, 203, 203, 203, 203, 203, 203, 203, 203, 203, 203, 203, 203, 203, 203, 203, 203, 203, 203, 203, 203, 203, 203, 204, 204, 204, 204,
     204, 204, 204, 204, 204, 204, 204, 204, 204, 204, 204, 204, 204, 204, 204, 204, 204, 204, 204, 204, 204, 204, 204, 205, 205, 205, 205, 205, 205, 205, 205, 205,
     205, 205, 205, 205, 205, 205, 205, 205, 205, 205, 205, 205, 205, 205, 205, 205, 205, 205, 206, 206, 206, 206, 206, 206, 206, 206, 206, 206, 206, 206, 206, 206,
     206, 206, 206, 206, 206, 206, 206, 206, 206, 206, 206, 206, 206, 206, 207, 207, 207, 207, 207, 207, 207, 207, 207, 207, 207, 207, 207, 207, 207, 207, 207, 207,
     207, 207, 207, 207, 207, 207, 207, 207, 207, 207, 208, 208, 208, 208, 208, 208, 208, 208, 208, 208, 208, 208, 208, 208, 208, 208, 208, 208, 208, 208, 208, 208,
     208, 208, 208, 208, 208, 209, 209, 209, 209, 209, 209, 209, 209, 209, 209, 209, 209, 209, 209, 209, 209, 209, 209, 209, 209, 209, 209, 209, 209, 209, 209, 209,
     209, 209, 210, 210, 210, 210, 210, 210, 210, 210, 210, 210, 210, 210, 210, 210, 210, 210, 210, 210, 210, 210, 210, 210, 210, 210, 210, 210, 210, 210, 211, 211,
     211, 211, 211, 211, 211, 211, 211, 211, 211, 211, 211, 211, 211, 211, 211, 211, 211, 211, 211, 211, 211, 211, 211, 211, 211, 211, 212, 212, 212, 212, 212, 212,
     212, 212, 212, 212, 212, 212, 212, 212, 212, 212, 212, 212, 212, 212, 212, 212, 212, 212, 212, 212, 212, 212, 212, 213, 213, 213, 213, 213, 213, 213, 213, 213,
     213, 213, 213, 213, 213, 213, 213, 213, 213, 213, 213, 213, 213, 213, 213, 213, 213, 213, 213, 213, 214, 214, 214, 214, 214, 214, 214, 214, 214, 214, 214, 214,
     214, 214, 214, 214, 214, 214, 214, 214, 214, 214, 214, 214, 214, 214, 214, 214, 214, 215, 215, 215, 215, 215, 215, 215, 215, 215, 215, 215, 215, 215, 215, 215,
     215, 215, 215, 215, 215, 215, 215, 215, 215, 215, 215, 215, 215, 215, 216, 216, 216, 216, 216, 216, 216, 216, 216, 216, 216, 216, 216, 216, 216, 216, 216, 216,
     216, 216, 216, 216, 216, 216, 216, 216, 216, 216, 216, 217, 217, 217, 217, 217, 217, 217, 217, 217, 217, 217, 217, 217, 217, 217, 217, 217, 217, 217, 217, 217,
     217, 217, 217, 217, 217, 217, 217, 217, 217, 218, 218, 218, 218, 218, 218, 218, 218, 218, 218, 218, 218, 218, 218, 218, 218, 218, 218, 218, 218, 218, 218, 218,
     218, 218, 218, 218, 218, 218, 219, 219, 219, 219, 219, 219, 219, 219, 219, 219, 219, 219, 219, 219, 219, 219, 219, 219, 219, 219, 219, 219, 219, 219, 219, 219,
     219, 219, 219, 219, 220, 220, 220, 220, 220, 220, 220, 220, 220, 220, 220, 220, 220, 220, 220, 220, 220, 220, 220, 220, 220, 220, 220, 220, 220, 220, 220, 220,
     220, 220, 221, 221, 221, 221, 221, 221, 221, 221, 221, 221, 221, 221, 221, 221, 221, 221, 221, 221, 221, 221, 221, 221, 221, 221, 221, 221, 221, 221, 221, 221,
     221, 222, 222, 222, 222, 222, 222, 222, 222, 222, 222, 222, 222, 222, 222, 222, 222, 222, 222, 222, 222, 222, 222, 222, 222, 222, 222, 222, 222, 222, 222, 223,
     223, 223, 223, 223, 223, 223, 223, 223, 223, 223, 223, 223, 223, 223, 223, 223, 223, 223, 223, 223, 223, 223, 223, 223, 223, 223, 223, 223, 223, 223, 224, 224,
     224, 224, 224, 224, 224, 224, 224, 224, 224, 224, 224, 224, 224, 224, 224, 224, 224, 224, 224, 224, 224, 224, 224, 224, 224, 224, 224, 224, 225, 225, 225, 225,
     225, 225, 225, 225, 225, 225, 225, 225, 225, 225, 225, 225, 225, 225, 225, 225, 225, 225, 225, 225, 225, 225, 225, 225, 225, 225, 225, 226, 226, 226, 226, 226,
     226, 226, 226, 226, 226, 226, 226, 226, 226, 226, 226, 226, 226, 226, 226, 226, 226, 226, 226, 226, 226, 226, 226, 226, 226, 226, 227, 227, 227, 227, 227, 227,
     227, 227, 227, 227, 227, 227, 227, 227, 227, 227, 227, 227, 227, 227, 227, 227, 227, 227, 227, 227, 227, 227, 227, 227, 227, 227, 228, 228, 228, 228, 228, 228,
     228, 228, 228, 228, 228, 228, 228, 228, 228, 228, 228, 228, 228, 228, 228, 228, 228, 228, 228, 228, 228, 228, 228, 228, 228, 229, 229, 229, 229, 229, 229, 229,
     229, 229, 229, 229, 229, 229, 229, 229, 229, 229, 229, 229, 229, 229, 229, 229, 229, 229, 229, 229, 229, 229, 229, 229, 229, 230, 230, 230, 230, 230, 230, 230,
     230, 230, 230, 230, 230, 230, 230, 230, 230, 230, 230, 230, 230, 230, 230, 230, 230, 230, 230, 230, 230, 230, 230, 230, 230, 231, 231, 231, 231, 231, 231, 231,
     231, 231, 231, 231, 231, 231, 231, 231, 231, 231, 231, 231, 231, 231, 231, 231, 231, 231, 231, 231, 231, 231, 231, 231, 231, 232, 232, 232, 232, 232, 232, 232,
     232, 232, 232, 232, 232, 232, 232, 232, 232, 232, 232, 232, 232, 232, 232, 232, 232, 232, 232, 232, 232, 232, 232, 232, 232, 233, 233, 233, 233, 233, 233, 233,
     233, 233, 233, 233, 233, 233, 233, 233, 233, 233, 233, 233, 233, 233, 233, 233, 233, 233, 233, 233, 233, 233, 233, 233, 233, 233, 234, 234, 234, 234, 234, 234,
     234, 234, 234, 234, 234, 234, 234, 234, 234, 234, 234, 234, 234, 234, 234, 234, 234, 234, 234, 234, 234, 234, 234, 234, 234, 234, 235, 235, 235, 235, 235, 235,
     235, 235, 235, 235, 235, 235, 235, 235, 235, 235, 235, 235, 235, 235, 235, 235, 235, 235, 235, 235, 235, 235, 235, 235, 235, 235, 235, 236, 236, 236, 236, 236,
     236, 236, 236, 236, 236, 236, 236, 236, 236, 236, 236, 236, 236, 236, 236, 236, 236, 236, 236, 236, 236, 236, 236, 236, 236, 236, 236, 236, 237, 237, 237, 237,
     237, 237, 237, 237, 237, 237, 237, 237, 237, 237, 237, 237, 237, 237, 237, 237, 237, 237, 237, 237, 237, 237, 237, 237, 237, 237, 237, 237, 237, 238, 238, 238,
     238, 238, 238, 238, 238, 238, 238, 238, 238, 238, 238, 238, 238, 238, 238, 238, 238, 238, 238, 238, 238, 238, 238, 238, 238, 238, 238, 238, 238, 238, 239, 239,
     239, 239, 239, 239, 239, 239, 239, 239, 239, 239, 239, 239, 239, 239, 239, 239, 239, 239, 239, 239, 239, 239, 239, 239, 239, 239, 239, 239, 239, 239, 239, 239,
     240, 240, 240, 240, 240, 240, 240, 240, 240, 240, 240, 240, 240, 240, 240, 240, 240, 240, 240, 240, 240, 240, 240, 240, 240, 240, 240, 240, 240, 240, 240, 240,
     240, 240, 241, 241, 241, 241, 241, 241, 241, 241, 241, 241, 241, 241, 241, 241, 241, 241, 241, 241, 241, 241, 241, 241, 241, 241, 241, 241, 241, 241, 241, 241,
     241, 241, 241, 241, 242, 242, 242, 242, 242, 242, 242, 242, 242, 242, 242, 242, 242, 242, 242, 242, 242, 242, 242, 242, 242, 242, 242, 242, 242, 242, 242, 242,
     242, 242, 242, 242, 242, 242, 243, 243, 243, 243, 243, 243, 243, 243, 243, 243, 243, 243, 243, 243, 243, 243, 243, 243, 243, 243, 243, 243, 243, 243, 243, 243,
     243, 243, 243, 243, 243, 243, 243, 243, 244, 244, 244, 244, 244, 244, 244, 244, 244, 244, 244, 244, 244, 244, 244, 244, 244, 244, 244, 244, 244, 244, 244, 244,
     244, 244, 244, 244, 244, 244, 244, 244, 244, 244, 245, 245, 245, 245, 245, 245, 245, 245, 245, 245, 245, 245, 245, 245, 245, 245, 245, 245, 245, 245, 245, 245,
     245, 245, 245, 245, 245, 245, 245, 245, 245, 245, 245, 245, 245, 246, 246, 246, 246, 246, 246, 246, 246, 246, 246, 246, 246, 246, 246, 246, 246, 246, 246, 246,
     246, 246, 246, 246, 246, 246, 246, 246, 246, 246, 246, 246, 246, 246, 246, 246, 247, 247, 247, 247, 247, 247, 247, 247, 247, 247, 247, 247, 247, 247, 247, 247,
     247, 247, 247, 247, 247, 247, 247, 247, 247, 247, 247, 247, 247, 247, 247, 247, 247, 247, 247, 248, 248, 248, 248, 248, 248, 248, 248, 248, 248, 248, 248, 248,
     248, 248, 248, 248, 248, 248, 248, 248, 248, 248, 248, 248, 248, 248, 248, 248, 248, 248, 248, 248, 248, 248, 249, 249, 249, 249, 249, 249, 249, 249, 249, 249,
     249, 249, 249, 249, 249, 249, 249, 249, 249, 249, 249, 249, 249, 249, 249, 249, 249, 249, 249, 249, 249, 249, 249, 249, 249, 250, 250, 250, 250, 250, 250, 250,
     250, 250, 250, 250, 250, 250, 250, 250, 250, 250, 250, 250, 250, 250, 250, 250, 250, 250, 250, 250, 250, 250, 250, 250, 250, 250, 250, 250, 250, 251, 251, 251,
     251, 251, 251, 251, 251, 251, 251, 251, 251, 251, 251, 251, 251, 251, 251, 251, 251, 251, 251, 251, 251, 251, 251, 251, 251, 251, 251, 251, 251, 251, 251, 251,
     251, 252, 252, 252, 252, 252, 252, 252, 252, 252, 252, 252, 252, 252, 252, 252, 252, 252, 252, 252, 252, 252, 252, 252, 252, 252, 252, 252, 252, 252, 252, 252,
     252, 252, 252, 252, 252, 253, 253, 253, 253, 253, 253, 253, 253, 253, 253, 253, 253, 253, 253, 253, 253, 253, 253, 253, 253, 253, 253, 253, 253, 253, 253, 253,
     253, 253, 253, 253, 253, 253, 253, 253, 253, 254, 254, 254, 254, 254, 254, 254, 254, 254, 254, 254, 254, 254, 254, 254, 254, 254, 254, 254, 254, 254, 254, 254,
     254, 254, 254, 254, 254, 254, 254, 254, 254, 254, 254, 254, 254, 255, 255, 255, 255, 255, 255, 255, 255, 255, 255, 255, 255, 255, 255, 255, 255, 255, 255, 255
  >>

(***************************************************************************)
(* Bounds of the model.                                                    *)
(***************************************************************************)
WordBits == 5
MaxDim == 3
MaxRows == 2
MaxMaskRows == 5

\* size_t arithmetic is arithmetic modulo WordMod
WordMod == 2 ^ WordBits

\* the value of a destination byte that no step has written
Unwritten == 0 - 1

\* the value of an undefined-behaviour record field that was not needed
NoUB == 0 - 1

MinRadius == 1
MaxRadius == 25

(***************************************************************************)
(* Exact rational arithmetic standing for float arithmetic.                *)
(***************************************************************************)
Min(a, b) == IF a <= b THEN a ELSE b

Max(a, b) == IF a >= b THEN a ELSE b

Abs(n) == IF n < 0 THEN 0 - n ELSE n

RECURSIVE Gcd(_, _)
Gcd(a, b) == IF b = 0 THEN a ELSE Gcd(b, a % b)

Norm(n, d) ==
  LET g == Gcd(Abs(n), d) IN <<n \div g, d \div g>>

Int2R(n) == <<n, 1>>

Lcm(a, b) == (a \div Gcd(a, b)) * b

RAdd(a, b) ==
  LET l == Lcm(a[2], b[2]) IN Norm(a[1] * (l \div a[2]) + b[1] * (l \div b[2]), l)

RSub(a, b) ==
  LET l == Lcm(a[2], b[2]) IN Norm(a[1] * (l \div a[2]) - b[1] * (l \div b[2]), l)

RMul(a, b) == Norm(a[1] * b[1], a[2] * b[2])

\* b > 0
RDiv(a, b) == Norm(a[1] * b[2], a[2] * b[1])

RLt(a, b) == a[1] * b[2] < b[1] * a[2]

RLe(a, b) == a[1] * b[2] <= b[1] * a[2]

REq(a, b) == a[1] * b[2] = b[1] * a[2]

\* std::clamp(v, lo, hi)
RClamp(v, lo, hi) == IF RLt(v, lo) THEN lo ELSE IF RLt(hi, v) THEN hi ELSE v

\* conversion of a float to an integer type: truncation toward zero
Trunc(a) == IF a[1] >= 0 THEN a[1] \div a[2] ELSE 0 - ((0 - a[1]) \div a[2])

\* round half away from zero (std::round), used by the stated properties only
RoundNearest(a) ==
  IF a[1] >= 0 THEN (2 * a[1] + a[2]) \div (2 * a[2])
  ELSE 0 - ((2 * (0 - a[1]) + a[2]) \div (2 * a[2]))

RECURSIVE SumF(_, _, _)
SumF(f, lo, hi) == IF lo > hi THEN 0 ELSE f[lo] + SumF(f, lo + 1, hi)

\* conversion of a size_t to float: the largest word value rounds up to 2^w
SizeToFloat(n) == IF n = WordMod - 1 THEN WordMod ELSE n

\* the results a build can give for the conversion to size_t of a float that
\* is out of size_t's range (undefined behaviour)
UBCastResults == {0, WordMod \div 2, WordMod - 1}

\* the values a read outside the source buffer can give
GarbageBytes == {0, 255}

\* static_cast<size_t>(v) for v >= 0
FloatToSize(v, u) == IF RLt(v, Int2R(WordMod)) THEN Trunc(v) ELSE u

(***************************************************************************)
(* Arguments of backgroundBlur.                                            *)
(***************************************************************************)
NONE == "NONE"
TOP_TO_BOTTOM == "TOP_TO_BOTTOM"
BOTTOM_TO_TOP == "BOTTOM_TO_TOP"
EDGES == "EDGES"
ProgressiveDirection == {NONE, TOP_TO_BOTTOM, BOTTOM_TO_TOP, EDGES}

Offsets == {0, 1, WordMod - 1}

Geoms ==
  [srcWidth : 0..MaxDim, srcHeight : 1..MaxRows, cropX : Offsets, cropY : Offsets,
   cropWidth : 0..MaxDim, cropHeight : 0..MaxRows]

Radii == {MinRadius - 1, MinRadius, 3, MaxRadius, MaxRadius + 1}

Scales == {<<0, 1>>, <<1, 2>>, <<3, 4>>, <<1, 1>>, <<5, 4>>}

BlurParams == [radius : Radii, scale : Scales]

FadeVals == {<<0 - 1, 2>>, <<0, 1>>, <<1, 1>>, <<3, 2>>}

Fades == [progressiveDir : ProgressiveDirection, fadeStart : FadeVals, fadeEnd : FadeVals]

Ptrs == [srcNull : BOOLEAN, dstNull : BOOLEAN]

BaseGeom ==
  [srcWidth |-> MaxDim, srcHeight |-> MaxRows, cropX |-> 0, cropY |-> 0,
   cropWidth |-> MaxDim, cropHeight |-> MaxRows]

BaseBlur == [radius |-> 3, scale |-> <<3, 4>>]

BaseFade == [progressiveDir |-> NONE, fadeStart |-> <<0, 1>>, fadeEnd |-> <<1, 1>>]

BasePtr == [srcNull |-> FALSE, dstNull |-> FALSE]

MkArgs(p, g, b, f) ==
  [srcNull |-> p.srcNull, dstNull |-> p.dstNull,
   srcWidth |-> g.srcWidth, srcHeight |-> g.srcHeight,
   cropX |-> g.cropX, cropY |-> g.cropY,
   cropWidth |-> g.cropWidth, cropHeight |-> g.cropHeight,
   radius |-> b.radius, scale |-> b.scale,
   progressiveDir |-> f.progressiveDir, fadeStart |-> f.fadeStart, fadeEnd |-> f.fadeEnd]

NoArgs == MkArgs(BasePtr, BaseGeom, BaseBlur, BaseFade)

\* contents of the caller's source image
Patterns == {"gray", "checker", "blackwhite"}

Pixel(p, x, y) ==
  CASE p = "gray" -> <<128, 128, 128, 255>>
    [] p = "tint" -> <<64, 128, 192, 255>>
    [] p = "checker" -> IF (x + y) % 2 = 0 THEN <<255, 255, 255, 255>> ELSE <<0, 0, 0, 0>>
    [] OTHER -> IF x % 2 = 0 THEN <<0, 0, 0, 255>> ELSE <<255, 255, 255, 255>>

\* row-major RGBA buffer of w x h pixels; byte k of the buffer is element k+1
Image(p, w, h) ==
  [i \in 1..(w * h * 4) |->
     Pixel(p, ((i - 1) \div 4) % w, ((i - 1) \div 4) \div w)[((i - 1) % 4) + 1]]

(***************************************************************************)
(* State.                                                                  *)
(***************************************************************************)
VARIABLES
  pc,            \* position of the calling thread in backgroundBlur
  args,          \* the arguments of the call
  src,           \* the caller's source buffer
  dst,           \* the caller's destination buffer
  scaledInput,   \* gBuffers.scaledInput
  blurOutput,    \* gBuffers.blurOutput
  scaledWidth,   \* local scaledWidth
  scaledHeight,  \* local scaledHeight
  scaledRadius,  \* local scaledRadius, the radius handed to blur
  ret,           \* the value returned
  diag,          \* the diagnostic passed to ALOGE
  ub,            \* outcome of the undefined behaviour met by the call, if any
  log            \* the steps run so far by the call, in order

vars ==
  <<pc, args, src, dst, scaledInput, blurOutput, scaledWidth, scaledHeight,
    scaledRadius, ret, diag, ub, log>>

(***************************************************************************)
(* GammaLUT.                                                               *)
(***************************************************************************)
\* the linear intensity 1.0, in the units of srgbToLinear
LinearOne == srgbToLinear[256]

\* GammaLUT::toSrgb; linear is in the units of srgbToLinear
toSrgb(linear) ==
  LET top == Len(linearToSrgb) - 1
      scaled == RMul(linear, <<1, LinearOne \div top>>)
      idx == Trunc(RClamp(RAdd(scaled, <<1, 2>>), Int2R(0), Int2R(top)))
  IN linearToSrgb[idx + 1]

(***************************************************************************)
(* BackgroundBlurBuffers.                                                  *)
(***************************************************************************)
\* std::vector<uint8_t>::resize to a larger size appends zero bytes
Grow(buf, size) ==
  IF Len(buf) < size THEN buf \o [i \in 1..(size - Len(buf)) |-> 0] ELSE buf

ensureCapacity(bufs, scaledSize, blurSize) ==
  [scaledInput |-> Grow(bufs.scaledInput, scaledSize),
   blurOutput |-> Grow(bufs.blurOutput, blurSize)]

(***************************************************************************)
(* Resampler.                                                              *)
(***************************************************************************)
\* byte k of buf; a read outside the buffer gives the garbage byte g
Read(buf, k, g) == IF k >= 0 /\ k < Len(buf) THEN buf[k + 1] ELSE g

\* source coordinates of destination coordinate i along one axis:
\* the two neighbours c0, c1 and the fractional weight
SrcCoords(offset, i, extent, dstExtent, limit, u) ==
  LET scale == <<SizeToFloat(extent), dstExtent>>
      f == RAdd(Int2R(SizeToFloat(offset)), RMul(Int2R(i), scale))
      c0 == Min(FloatToSize(f, u), (limit - 1) % WordMod)
      c1 == Min((c0 + 1) % WordMod, (limit - 1) % WordMod)
  IN [c0 |-> c0, c1 |-> c1, f |-> f, frac |-> RSub(f, Int2R(SizeToFloat(c0)))]

\* two horizontal interpolations, then one vertical
Bilinear(p00, p10, p01, p11, xFrac, yFrac) ==
  LET top == RAdd(Int2R(p00), RMul(Int2R(p10 - p00), xFrac))
      bottom == RAdd(Int2R(p01), RMul(Int2R(p11 - p01), xFrac))
  IN RAdd(top, RMul(RSub(bottom, top), yFrac))


\* AlphaByte with rounding to nearest in place of the truncating cast
AlphaByteRounded(value) == RoundNearest(RClamp(value, Int2R(0), Int2R(255)))

\* the stored alpha byte: static_cast<uint8_t>(std::clamp(value, 0.0f, 255.0f))
AlphaByte(value) == Trunc(RClamp(value, Int2R(0), Int2R(255)))

\* index in the source buffer of channel c of pixel (x, y)
SrcIndex(x, y, srcWidth, c) == (y * srcWidth + x) * 4 + c

\* the byte stored for channel c of the destination pixel whose source
\* coordinates are cx, cy
Sample(srcBuf, srcWidth, cx, cy, c, g) ==
  LET b00 == Read(srcBuf, SrcIndex(cx.c0, cy.c0, srcWidth, c), g)
      b10 == Read(srcBuf, SrcIndex(cx.c1, cy.c0, srcWidth, c), g)
      b01 == Read(srcBuf, SrcIndex(cx.c0, cy.c1, srcWidth, c), g)
      b11 == Read(srcBuf, SrcIndex(cx.c1, cy.c1, srcWidth, c), g)
  IN IF c < 3
       THEN toSrgb(Bilinear(srgbToLinear[b00 + 1], srgbToLinear[b10 + 1],
                            srgbToLinear[b01 + 1], srgbToLinear[b11 + 1],
                            cx.frac, cy.frac))
       ELSE AlphaByte(Bilinear(b00, b10, b01, b11, cx.frac, cy.frac))

cropAndScaleDown(srcBuf, srcWidth, srcHeight, cropX, cropY, cropWidth, cropHeight, dstBuf, dstWidth, dstHeight, u, g) ==
  [k \in 1..Len(dstBuf) |->
     IF k > dstWidth * dstHeight * 4 THEN dstBuf[k]
     ELSE LET x == ((k - 1) \div 4) % dstWidth
              y == ((k - 1) \div 4) \div dstWidth
              cy == SrcCoords(cropY, y, cropHeight, dstHeight, srcHeight, u)
              cx == SrcCoords(cropX, x, cropWidth, dstWidth, srcWidth, u)
          IN Sample(srcBuf, srcWidth, cx, cy, (k - 1) % 4, g)]

scaleUp(srcBuf, srcWidth, srcHeight, dstBuf, dstWidth, dstHeight, u, g) ==
  [k \in 1..Len(dstBuf) |->
     IF k > dstWidth * dstHeight * 4 THEN dstBuf[k]
     ELSE LET x == ((k - 1) \div 4) % dstWidth
              y == ((k - 1) \div 4) \div dstWidth
              cy == SrcCoords(0, y, srcHeight, dstHeight, srcHeight, u)
              cx == SrcCoords(0, x, srcWidth, dstWidth, srcWidth, u)
          IN Sample(srcBuf, srcWidth, cx, cy, (k - 1) % 4, g)]

(***************************************************************************)
(* Blur.  RenderScriptToolkit::blur is declared in RenderScriptToolkit.h   *)
(* and defined outside the files modelled here: a normalized, symmetric    *)
(* weighted average with edge replication whose sums are truncated to      *)
(* bytes.  It reads the first sizeX*sizeY*vectorSize bytes of in and       *)
(* writes the same bytes of out.                                           *)
(***************************************************************************)
BlurWeight(radius, d) == radius + 1 - Abs(d)

\* total weight that output coordinate i takes from input coordinate j
AxisWeight(radius, i, j, n) ==
  SumF([d \in (0 - radius)..radius |->
          IF Min(Max(i + d, 0), n - 1) = j THEN BlurWeight(radius, d) ELSE 0],
       0 - radius, radius)

\* the weights of one axis of n samples: element i+1 holds, at j+1, the
\* weight that output coordinate i takes from input coordinate j
AxisKernel(radius, n) ==
  SubSeq([i \in 1..n |-> SubSeq([j \in 1..n |-> AxisWeight(radius, i - 1, j - 1, n)], 1, n)], 1, n)

blur(in, out, sizeX, sizeY, vectorSize, radius) ==
  LET wx == AxisKernel(radius, sizeX)
      wy == AxisKernel(radius, sizeY)
      norm == (radius + 1) * (radius + 1) * (radius + 1) * (radius + 1)
  IN [k \in 1..Len(out) |->
        IF k > sizeX * sizeY * vectorSize THEN out[k]
        ELSE LET x == ((k - 1) \div vectorSize) % sizeX
                 y == ((k - 1) \div vectorSize) \div sizeX
                 c == (k - 1) % vectorSize
             IN SumF([q \in 0..(sizeX * sizeY - 1) |->
                        wx[x + 1][(q % sizeX) + 1] * wy[y + 1][(q \div sizeX) + 1]
                          * in[q * vectorSize + c + 1]],
                     0, sizeX * sizeY - 1) \div norm]

(***************************************************************************)
(* Progressive mask.                                                       *)
(***************************************************************************)
heightDenom(height) == IF height > 1 THEN height - 1 ELSE 1


\* RowAlpha with the ramp of TOP_TO_BOTTOM rising instead of falling
RowAlphaRisingRamp(direction, normalizedY, fadeStart, fadeEnd) ==
  CASE direction = TOP_TO_BOTTOM ->
         IF RLe(normalizedY, fadeStart) THEN Int2R(1)
         ELSE IF RLe(fadeEnd, normalizedY) THEN Int2R(0)
         ELSE RDiv(RSub(normalizedY, fadeStart), RSub(fadeEnd, fadeStart))
    [] direction = BOTTOM_TO_TOP ->
         IF RLe(fadeStart, normalizedY) THEN Int2R(1)
         ELSE IF RLe(normalizedY, fadeEnd) THEN Int2R(0)
         ELSE RDiv(RSub(normalizedY, fadeEnd), RSub(fadeStart, fadeEnd))
    [] direction = EDGES ->
         IF RLe(normalizedY, fadeStart)
           THEN IF RLt(Int2R(0), fadeStart) THEN RDiv(normalizedY, fadeStart) ELSE Int2R(1)
         ELSE IF RLe(fadeEnd, normalizedY)
           THEN IF RLt(fadeEnd, Int2R(1))
                  THEN RDiv(RSub(Int2R(1), normalizedY), RSub(Int2R(1), fadeEnd))
                  ELSE Int2R(1)
         ELSE Int2R(1)
    [] OTHER -> Int2R(1)

\* the switch of applyProgressiveMask: the row's alpha before clamping
RowAlpha(direction, normalizedY, fadeStart, fadeEnd) ==
  CASE direction = TOP_TO_BOTTOM ->
         IF RLe(normalizedY, fadeStart) THEN Int2R(1)
         ELSE IF RLe(fadeEnd, normalizedY) THEN Int2R(0)
         ELSE LET range == RSub(fadeEnd, fadeStart)
              IN IF RLt(Int2R(0), range)
                   THEN RSub(Int2R(1), RDiv(RSub(normalizedY, fadeStart), range))
                   ELSE Int2R(1)
    [] direction = BOTTOM_TO_TOP ->
         IF RLe(fadeStart, normalizedY) THEN Int2R(1)
         ELSE IF RLe(normalizedY, fadeEnd) THEN Int2R(0)
         ELSE LET range == RSub(fadeStart, fadeEnd)
              IN IF RLt(Int2R(0), range)
                   THEN RDiv(RSub(normalizedY, fadeEnd), range)
                   ELSE Int2R(1)
    [] direction = EDGES ->
         IF RLe(normalizedY, fadeStart)
           THEN IF RLt(Int2R(0), fadeStart) THEN RDiv(normalizedY, fadeStart) ELSE Int2R(1)
         ELSE IF RLe(fadeEnd, normalizedY)
           THEN IF RLt(fadeEnd, Int2R(1))
                  THEN RDiv(RSub(Int2R(1), normalizedY), RSub(Int2R(1), fadeEnd))
                  ELSE Int2R(1)
         ELSE Int2R(1)
    [] OTHER -> Int2R(1)

\* the multiplier applied to row y
RowMultiplier(direction, y, height, fadeStart, fadeEnd) ==
  RClamp(RowAlpha(direction, <<y, heightDenom(height)>>, fadeStart, fadeEnd),
         Int2R(0), Int2R(1))

\* static_cast<uint8_t>(b * alpha + 0.5f)
MaskByte(b, alpha) == Trunc(RAdd(RMul(Int2R(b), alpha), <<1, 2>>))


\* MaskedAt scaling the alpha channel only
MaskedAtAlphaOnly(buffer, k, width, height, direction, fadeStart, fadeEnd) ==
  IF (k - 1) % 4 = 3
    THEN MaskByte(buffer[k],
                  RowMultiplier(direction, ((k - 1) \div 4) \div width, height, fadeStart, fadeEnd))
    ELSE buffer[k]

\* the byte stored at index k-1 of the buffer
MaskedAt(buffer, k, width, height, direction, fadeStart, fadeEnd) ==
  MaskByte(buffer[k],
           RowMultiplier(direction, ((k - 1) \div 4) \div width, height, fadeStart, fadeEnd))


\* applyProgressiveMask without the early return, alpha starting at 0.0f
applyProgressiveMaskNoEarlyReturn(buffer, width, height, direction, fadeStart, fadeEnd) ==
  [k \in 1..Len(buffer) |->
     IF k > width * height * 4 THEN buffer[k]
     ELSE IF direction = NONE THEN MaskByte(buffer[k], Int2R(0))
     ELSE MaskedAt(buffer, k, width, height, direction, fadeStart, fadeEnd)]

applyProgressiveMask(buffer, width, height, direction, fadeStart, fadeEnd) ==
  IF direction = NONE THEN buffer
  ELSE [k \in 1..Len(buffer) |->
          IF k > width * height * 4 THEN buffer[k]
          ELSE MaskedAt(buffer, k, width, height, direction, fadeStart, fadeEnd)]

(***************************************************************************)
(* backgroundBlur.                                                         *)
(***************************************************************************)

\* ValidationFailure without its last check
ValidationWithoutEdgesCheck(a) ==
  IF a.srcNull \/ a.dstNull THEN "null buffer"
  ELSE IF \/ (a.cropX + a.cropWidth) % WordMod > a.srcWidth
          \/ (a.cropY + a.cropHeight) % WordMod > a.srcHeight
    THEN "crop region exceeds source bounds"
  ELSE IF a.radius < MinRadius \/ a.radius > MaxRadius THEN "radius must be 1-25"
  ELSE IF RLe(a.scale, Int2R(0)) \/ RLt(Int2R(1), a.scale) THEN "scale must be > 0 and <= 1"
  ELSE IF a.cropWidth = 0 \/ a.cropHeight = 0 THEN "crop dimensions are zero"
  ELSE IF \/ RLt(a.fadeStart, Int2R(0)) \/ RLt(Int2R(1), a.fadeStart)
          \/ RLt(a.fadeEnd, Int2R(0)) \/ RLt(Int2R(1), a.fadeEnd)
    THEN "fadeStart and fadeEnd must be in [0.0, 1.0]"
  ELSE IF a.progressiveDir = TOP_TO_BOTTOM /\ RLe(a.fadeEnd, a.fadeStart)
    THEN "TOP_TO_BOTTOM requires fadeStart < fadeEnd"
  ELSE IF a.progressiveDir = BOTTOM_TO_TOP /\ RLe(a.fadeStart, a.fadeEnd)
    THEN "BOTTOM_TO_TOP requires fadeEnd < fadeStart"
  ELSE "ok"

\* the validation of backgroundBlur, check by check in the order of the code:
\* the diagnostic of the first check that fails, or "ok"
ValidationFailure(a) ==
  IF a.srcNull \/ a.dstNull THEN "null buffer"
  ELSE IF \/ (a.cropX + a.cropWidth) % WordMod > a.srcWidth
          \/ (a.cropY + a.cropHeight) % WordMod > a.srcHeight
    THEN "crop region exceeds source bounds"
  ELSE IF a.radius < MinRadius \/ a.radius > MaxRadius THEN "radius must be 1-25"
  ELSE IF RLe(a.scale, Int2R(0)) \/ RLt(Int2R(1), a.scale) THEN "scale must be > 0 and <= 1"
  ELSE IF a.cropWidth = 0 \/ a.cropHeight = 0 THEN "crop dimensions are zero"
  ELSE IF \/ RLt(a.fadeStart, Int2R(0)) \/ RLt(Int2R(1), a.fadeStart)
          \/ RLt(a.fadeEnd, Int2R(0)) \/ RLt(Int2R(1), a.fadeEnd)
    THEN "fadeStart and fadeEnd must be in [0.0, 1.0]"
  ELSE IF a.progressiveDir = TOP_TO_BOTTOM /\ RLe(a.fadeEnd, a.fadeStart)
    THEN "TOP_TO_BOTTOM requires fadeStart < fadeEnd"
  ELSE IF a.progressiveDir = BOTTOM_TO_TOP /\ RLe(a.fadeStart, a.fadeEnd)
    THEN "BOTTOM_TO_TOP requires fadeEnd < fadeStart"
  ELSE IF a.progressiveDir = EDGES /\ RLe(a.fadeEnd, a.fadeStart)
    THEN "EDGES requires fadeStart < fadeEnd"
  ELSE "ok"


\* ScaledExtent with rounding to nearest in place of the truncating cast
ScaledExtentRounded(extent, scale) ==
  Max(RoundNearest(RMul(Int2R(SizeToFloat(extent)), scale)), 1)

\* std::max(static_cast<size_t>(extent * scale), size_t(1))
ScaledExtent(extent, scale) ==
  Max(Trunc(RMul(Int2R(SizeToFloat(extent)), scale)), 1)

\* scaledSize: the size_t product scaledWidth * scaledHeight * 4
ScaledSize(w, h) == (w * h * 4) % WordMod


\* ScaledRadius with rounding to nearest in place of the truncating cast
ScaledRadiusRounded(radius, scale) ==
  Min(Max(RoundNearest(RMul(Int2R(radius), scale)), MinRadius), MaxRadius)

\* std::min(std::max(static_cast<int>(radius * scale), 1), 25)
ScaledRadius(radius, scale) ==
  Min(Max(Trunc(RMul(Int2R(radius), scale)), MinRadius), MaxRadius)


\* the order documented in RenderScriptToolkit.h: mask before the upscale
StepsMaskBeforeScaleUp == <<"cropAndScaleDown", "blur", "applyProgressiveMask", "scaleUp">>

\* the four steps of a valid call, in the order of the code
Steps == <<"cropAndScaleDown", "blur", "scaleUp", "applyProgressiveMask">>

\* the position after step number i
After(i) == IF i < Len(Steps) THEN Steps[i + 1] ELSE "returned"

StepNo(s) == CHOOSE i \in 1..Len(Steps) : Steps[i] = s

\* some conversion of a source coordinate to size_t is out of range
CastOutOfRange(a, dstWidth, dstHeight) ==
  \/ \E x \in 0..(dstWidth - 1) :
       ~RLt(SrcCoords(a.cropX, x, a.cropWidth, dstWidth, a.srcWidth, 0).f, Int2R(WordMod))
  \/ \E y \in 0..(dstHeight - 1) :
       ~RLt(SrcCoords(a.cropY, y, a.cropHeight, dstHeight, a.srcHeight, 0).f, Int2R(WordMod))

\* the indices of the source bytes read by a resampling
ReadIndices(offX, offY, extX, extY, srcWidth, srcHeight, dstWidth, dstHeight, u) ==
  UNION {LET cx == SrcCoords(offX, x, extX, dstWidth, srcWidth, u)
             cy == SrcCoords(offY, y, extY, dstHeight, srcHeight, u)
         IN {SrcIndex(xx, yy, srcWidth, c) : xx \in {cx.c0, cx.c1}, yy \in {cy.c0, cy.c1}, c \in 0..3}
         : x \in 0..(dstWidth - 1), y \in 0..(dstHeight - 1)}

Init ==
  /\ pc = "idle"
  /\ args = NoArgs
  /\ src = <<>>
  /\ dst = <<>>
  /\ scaledInput = <<>>
  /\ blurOutput = <<>>
  /\ scaledWidth = 0
  /\ scaledHeight = 0
  /\ scaledRadius = 0
  /\ ret = FALSE
  /\ diag = ""
  /\ ub = [cast |-> NoUB, byte |-> NoUB]
  /\ log = <<>>

\* entry of backgroundBlur: validation, scaled dimensions, scratch capacity
backgroundBlur(a, p) ==
  /\ pc = "idle"
  /\ args' = a
  /\ src' = IF a.srcNull THEN <<>> ELSE Image(p, a.srcWidth, a.srcHeight)
  /\ dst' = IF a.dstNull THEN <<>>
            ELSE [i \in 1..(a.cropWidth * a.cropHeight * 4) |-> Unwritten]
  /\ diag' = ValidationFailure(a)
  /\ IF ValidationFailure(a) # "ok"
       THEN /\ ret' = FALSE
            /\ pc' = "returned"
            /\ UNCHANGED <<scaledInput, blurOutput, scaledWidth, scaledHeight>>
       ELSE LET w == ScaledExtent(a.cropWidth, a.scale)
                h == ScaledExtent(a.cropHeight, a.scale)
                bufs == ensureCapacity([scaledInput |-> scaledInput, blurOutput |-> blurOutput],
                                       ScaledSize(w, h), ScaledSize(w, h))
            IN /\ scaledWidth' = w
               /\ scaledHeight' = h
               /\ scaledInput' = bufs.scaledInput
               /\ blurOutput' = bufs.blurOutput
               /\ pc' = Steps[1]
               /\ UNCHANGED ret
  /\ UNCHANGED <<scaledRadius, ub, log>>

\* the bookkeeping common to the four steps
Advance(s) ==
  /\ pc = s
  /\ log' = Append(log, s)
  /\ pc' = After(StepNo(s))
  /\ ret' = (After(StepNo(s)) = "returned")
  /\ UNCHANGED <<args, src, diag, scaledWidth, scaledHeight>>

\* Step 1: crop and scale down
StepCropAndScaleDown ==
  /\ Advance("cropAndScaleDown")
  /\ \E u \in IF CastOutOfRange(args, scaledWidth, scaledHeight) THEN UBCastResults ELSE {NoUB} :
       \E g \in IF ReadIndices(args.cropX, args.cropY, args.cropWidth, args.cropHeight,
                               args.srcWidth, args.srcHeight, scaledWidth, scaledHeight, u)
                     \subseteq 0..(Len(src) - 1)
                  THEN {NoUB} ELSE GarbageBytes :
         /\ ub' = [cast |-> u, byte |-> g]
         /\ scaledInput' = cropAndScaleDown(src, args.srcWidth, args.srcHeight,
                                            args.cropX, args.cropY, args.cropWidth, args.cropHeight,
                                            scaledInput, scaledWidth, scaledHeight, u, g)
  /\ UNCHANGED <<dst, blurOutput, scaledRadius>>

\* Step 2: blur
StepBlur ==
  /\ Advance("blur")
  /\ scaledRadius' = ScaledRadius(args.radius, args.scale)
  /\ blurOutput' = blur(scaledInput, blurOutput, scaledWidth, scaledHeight, 4,
                        ScaledRadius(args.radius, args.scale))
  /\ UNCHANGED <<dst, scaledInput, ub>>

\* Step 3: scale up into dst
StepScaleUp ==
  /\ Advance("scaleUp")
  /\ dst' = scaleUp(blurOutput, scaledWidth, scaledHeight, dst, args.cropWidth, args.cropHeight,
                    NoUB, NoUB)
  /\ UNCHANGED <<scaledInput, blurOutput, scaledRadius, ub>>

\* Step 4: progressive mask
StepApplyProgressiveMask ==
  /\ Advance("applyProgressiveMask")
  /\ dst' = applyProgressiveMask(dst, args.cropWidth, args.cropHeight,
                                 args.progressiveDir, args.fadeStart, args.fadeEnd)
  /\ UNCHANGED <<scaledInput, blurOutput, scaledRadius, ub>>

\* the calls of the model: every pair of argument groups varies over its whole
\* range while the other two groups keep a valid value
Call ==
  /\ pc = "idle"
  /\ \E p \in Patterns :
       \/ \E g \in Geoms, b \in BlurParams : backgroundBlur(MkArgs(BasePtr, g, b, BaseFade), p)
       \/ \E g \in Geoms, f \in Fades : backgroundBlur(MkArgs(BasePtr, g, BaseBlur, f), p)
       \/ \E b \in BlurParams, f \in Fades : backgroundBlur(MkArgs(BasePtr, BaseGeom, b, f), p)
       \/ \E q \in Ptrs, g \in Geoms : backgroundBlur(MkArgs(q, g, BaseBlur, BaseFade), p)
       \/ \E q \in Ptrs, b \in BlurParams : backgroundBlur(MkArgs(q, BaseGeom, b, BaseFade), p)
       \/ \E q \in Ptrs, f \in Fades : backgroundBlur(MkArgs(q, BaseGeom, BaseBlur, f), p)

Next ==
  \/ Call
  \/ StepCropAndScaleDown
  \/ StepBlur
  \/ StepScaleUp
  \/ StepApplyProgressiveMask

Spec == Init /\ [][Next]_vars

(***************************************************************************)
(* Properties.                                                             *)
(***************************************************************************)
\* a call has been made and its validation has been decided
Called == pc # "idle"

\* the call was rejected
Rejected == pc = "returned" /\ ret = FALSE

\* the call went past validation
Accepted == Called /\ ~Rejected

\* the call ran its four steps and returned true
Succeeded == pc = "returned" /\ ret = TRUE

DstUntouched == \A k \in DOMAIN dst : dst[k] = Unwritten

DstWritten == \A k \in DOMAIN dst : dst[k] \in 0..255

\* one of the validation rules on pointers, radius, scale, crop size and
\* fade values is violated
RuleViolated(a) ==
  \/ a.srcNull
  \/ a.dstNull
  \/ a.radius < 1
  \/ a.radius > 25
  \/ a.scale[1] <= 0
  \/ a.scale[1] > a.scale[2]
  \/ a.cropWidth = 0
  \/ a.cropHeight = 0
  \/ a.fadeStart[1] < 0
  \/ a.fadeStart[1] > a.fadeStart[2]
  \/ a.fadeEnd[1] < 0
  \/ a.fadeEnd[1] > a.fadeEnd[2]
  \/ /\ a.progressiveDir \in {TOP_TO_BOTTOM, EDGES}
     /\ a.fadeStart[1] * a.fadeEnd[2] >= a.fadeEnd[1] * a.fadeStart[2]
  \/ /\ a.progressiveDir = BOTTOM_TO_TOP
     /\ a.fadeEnd[1] * a.fadeStart[2] >= a.fadeStart[1] * a.fadeEnd[2]

RegionOutsideSourceRejected ==
  (Called /\ (\/ args.cropX + args.cropWidth > args.srcWidth
              \/ args.cropY + args.cropHeight > args.srcHeight)) => Rejected

FloorOfProduct(extent, scale) == (extent * scale[1]) \div scale[2]

\* C4 as stated: the working dimensions are max(1, round(crop x scale)).
ScaledDimsRounded ==
  Accepted =>
    /\ scaledWidth = Max(1, RoundNearest(<<args.cropWidth * args.scale[1], args.scale[2]>>))
    /\ scaledHeight = Max(1, RoundNearest(<<args.cropHeight * args.scale[1], args.scale[2]>>))

\* C4 amended: the working dimensions are max(1, floor(crop x scale)), the
\* product truncated toward zero, and the scratch buffers hold that many
\* pixels.
ScaledDimsTruncated ==
  Accepted =>
    /\ scaledWidth = Max(1, FloorOfProduct(args.cropWidth, args.scale))
    /\ scaledHeight = Max(1, FloorOfProduct(args.cropHeight, args.scale))
    /\ Len(scaledInput) >= scaledWidth * scaledHeight * 4
    /\ Len(blurOutput) >= scaledWidth * scaledHeight * 4

\* C4 witness: cropWidth = 3 and scale = 0.5 ran with scaledWidth = 1.
WitnessScaledDimsTruncated ==
  /\ Succeeded
  /\ args.cropWidth = 3
  /\ args.scale = <<1, 2>>
  /\ scaledWidth = 1

BlurHasRun == Len(log) >= 2 /\ log[2] = "blur"

\* C5 as stated: the radius handed to blur is clamp(round(radius x scale), 1, 25).
BlurRadiusRounded ==
  BlurHasRun =>
    scaledRadius =
      Min(Max(RoundNearest(<<args.radius * args.scale[1], args.scale[2]>>), 1), 25)

\* C5 amended: the radius handed to blur is clamp(floor(radius x scale), 1, 25),
\* the product truncated toward zero, and lies in [1,25].
BlurRadiusTruncated ==
  BlurHasRun =>
    /\ scaledRadius = Min(Max(FloorOfProduct(args.radius, args.scale), 1), 25)
    /\ scaledRadius \in 1..25

\* C5 witness: radius = 3 and scale = 0.5 blurred with radius 1.
WitnessBlurRadiusTruncated ==
  /\ BlurHasRun
  /\ args.radius = 3
  /\ args.scale = <<1, 2>>
  /\ scaledRadius = 1

(***************************************************************************)
(* The progressive mask on its own: applyProgressiveMask applied to a      *)
(* destination as the upscale leaves it, for the directions and fade pairs *)
(* that validation accepts, over images of up to MaxMaskRows rows.         *)
(***************************************************************************)
FadeSteps == {<<0, 1>>, <<1, 4>>, <<1, 2>>, <<3, 4>>, <<1, 1>>}

MaskFades == [progressiveDir : ProgressiveDirection, fadeStart : FadeSteps, fadeEnd : FadeSteps]

MaskGeom(w, h) ==
  [srcWidth |-> w, srcHeight |-> h, cropX |-> 0, cropY |-> 0, cropWidth |-> w, cropHeight |-> h]

MaskScale == [radius |-> MinRadius, scale |-> <<1, 1>>]

InitMask ==
  \E w \in 1..2, h \in 1..MaxMaskRows, f \in MaskFades, p \in Patterns \cup {"tint"} :
    /\ ValidationFailure(MkArgs(BasePtr, MaskGeom(w, h), MaskScale, f)) = "ok"
    /\ pc = "applyProgressiveMask"
    /\ args = MkArgs(BasePtr, MaskGeom(w, h), MaskScale, f)
    /\ src = Image(p, w, h)
    /\ dst = Image(p, w, h)
    /\ scaledInput = Grow(<<>>, w * h * 4)
    /\ blurOutput = Grow(<<>>, w * h * 4)
    /\ scaledWidth = w
    /\ scaledHeight = h
    /\ scaledRadius = MinRadius
    /\ ret = FALSE
    /\ diag = "ok"
    /\ ub = [cast |-> NoUB, byte |-> NoUB]
    /\ log = <<"cropAndScaleDown", "blur", "scaleUp">>

NextMask == StepApplyProgressiveMask

SpecMask == InitMask /\ [][NextMask]_vars

\* C6: for a direction other than None the mask replaces every channel c of
\* every pixel of a row by trunc(c * a + 0.5) for the row's one multiplier
\* a, which lies in [0,1]; every result is a byte.
MaskScalesAllChannels ==
  [][(pc = "applyProgressiveMask" /\ args.progressiveDir # NONE) =>
       \A y \in 0..(args.cropHeight - 1) :
         LET a == RowMultiplier(args.progressiveDir, y, args.cropHeight,
                                args.fadeStart, args.fadeEnd)
         IN /\ 0 <= a[1]
            /\ a[1] <= a[2]
            /\ \A x \in 0..(args.cropWidth - 1), c \in 1..4 :
                 LET k == (y * args.cropWidth + x) * 4 + c
                 IN /\ dst'[k] = (2 * dst[k] * a[1] + a[2]) \div (2 * a[2])
                    /\ dst'[k] \in 0..255]_vars

\* C6 witness: a TopToBottom mask with fades 0 and 1 has halved all four
\* channels of the middle row of a three-row image of pixels (64,128,192,255).
WitnessMaskScalesAllChannels ==
  /\ Succeeded
  /\ args.progressiveDir = TOP_TO_BOTTOM
  /\ args.fadeStart = <<0, 1>>
  /\ args.fadeEnd = <<1, 1>>
  /\ args.cropHeight = 3
  /\ args.cropWidth = 1
  /\ SubSeq(dst, 5, 8) = <<32, 64, 96, 128>>
  /\ SubSeq(src, 5, 8) = <<64, 128, 192, 255>>

\* the reference fade profiles at normalized row position ny
ProfileTopToBottom(ny, fadeStart, fadeEnd) ==
  IF RLe(ny, fadeStart) THEN Int2R(1)
  ELSE IF RLe(fadeEnd, ny) THEN Int2R(0)
  ELSE RSub(Int2R(1), RDiv(RSub(ny, fadeStart), RSub(fadeEnd, fadeStart)))

ProfileBottomToTop(ny, fadeStart, fadeEnd) ==
  IF RLe(fadeStart, ny) THEN Int2R(1)
  ELSE IF RLe(ny, fadeEnd) THEN Int2R(0)
  ELSE RDiv(RSub(ny, fadeEnd), RSub(fadeStart, fadeEnd))

ProfileEdges(ny, fadeStart, fadeEnd) ==
  IF RLt(ny, fadeStart) THEN RDiv(ny, fadeStart)
  ELSE IF RLt(fadeEnd, ny) THEN RDiv(RSub(Int2R(1), ny), RSub(Int2R(1), fadeEnd))
  ELSE Int2R(1)

Profile(direction, ny, fadeStart, fadeEnd) ==
  CASE direction = TOP_TO_BOTTOM -> ProfileTopToBottom(ny, fadeStart, fadeEnd)
    [] direction = BOTTOM_TO_TOP -> ProfileBottomToTop(ny, fadeStart, fadeEnd)
    [] OTHER -> ProfileEdges(ny, fadeStart, fadeEnd)

\* C7: for every row y and every fade pair that validation accepts, the
\* multiplier of row y equals the reference profile of its direction at
\* normalizedY = y / max(height-1, 1); a ramp of zero width gives 1.
RowMultiplierMatchesProfile ==
  (Called /\ args.progressiveDir # NONE) =>
    \A y \in 0..(args.cropHeight - 1) :
      REq(RowMultiplier(args.progressiveDir, y, args.cropHeight, args.fadeStart, args.fadeEnd),
          Profile(args.progressiveDir, <<y, Max(args.cropHeight - 1, 1)>>,
                  args.fadeStart, args.fadeEnd))

\* C7 witness: an Edges mask with fadeStart = 0 (a zero-width rising ramp)
\* and fadeEnd = 1/2 has run over five rows: the first row is kept and the
\* fourth, at normalizedY = 3/4, is halved.
WitnessRowMultiplierMatchesProfile ==
  /\ Succeeded
  /\ args.progressiveDir = EDGES
  /\ args.fadeStart = <<0, 1>>
  /\ args.fadeEnd = <<1, 2>>
  /\ args.cropHeight = 5
  /\ args.cropWidth = 1
  /\ SubSeq(src, 1, 4) = <<64, 128, 192, 255>>
  /\ SubSeq(dst, 1, 4) = <<64, 128, 192, 255>>
  /\ SubSeq(dst, 13, 16) = <<32, 64, 96, 128>>

\* C8: with direction None the mask step changes no byte of dst and the
\* call returns true with dst as the upscale wrote it, whatever the fades.
NoneMaskLeavesDst ==
  [][(pc = "applyProgressiveMask" /\ args.progressiveDir = NONE) =>
       (dst' = dst /\ pc' = "returned" /\ ret' = TRUE)]_vars

\* C8 witness: a call with direction None, fadeStart = 1 and fadeEnd = 0 has
\* returned true with a fully written dst that holds non-zero bytes.
WitnessNoneMaskLeavesDst ==
  /\ Succeeded
  /\ args.progressiveDir = NONE
  /\ args.fadeStart = <<1, 1>>
  /\ args.fadeEnd = <<0, 1>>
  /\ Len(dst) > 0
  /\ DstWritten
  /\ \E k \in DOMAIN dst : dst[k] > 0

\* the outcome of the out-of-range conversions of the call, if it had any
CastOutcome == ub.cast

\* the four neighbours of every destination pixel lie in the source
CoordsInBounds(offX, offY, extX, extY, srcWidth, srcHeight, dstWidth, dstHeight, u) ==
  \A x \in 0..(dstWidth - 1), y \in 0..(dstHeight - 1) :
    LET cx == SrcCoords(offX, x, extX, dstWidth, srcWidth, u)
        cy == SrcCoords(offY, y, extY, dstHeight, srcHeight, u)
    IN /\ 0 <= cx.c0 /\ cx.c0 <= cx.c1 /\ cx.c1 <= srcWidth - 1
       /\ 0 <= cy.c0 /\ cy.c0 <= cy.c1 /\ cy.c1 <= srcHeight - 1

CropReadsInBounds ==
  /\ CoordsInBounds(args.cropX, args.cropY, args.cropWidth, args.cropHeight,
                    args.srcWidth, args.srcHeight, scaledWidth, scaledHeight, CastOutcome)
  /\ ReadIndices(args.cropX, args.cropY, args.cropWidth, args.cropHeight,
                 args.srcWidth, args.srcHeight, scaledWidth, scaledHeight, CastOutcome)
       \subseteq 0..(args.srcWidth * args.srcHeight * 4 - 1)
  /\ scaledWidth * scaledHeight * 4 <= Len(scaledInput)

ScaleUpReadsInBounds ==
  /\ CoordsInBounds(0, 0, scaledWidth, scaledHeight, scaledWidth, scaledHeight,
                    args.cropWidth, args.cropHeight, NoUB)
  /\ ReadIndices(0, 0, scaledWidth, scaledHeight, scaledWidth, scaledHeight,
                 args.cropWidth, args.cropHeight, NoUB)
       \subseteq 0..(scaledWidth * scaledHeight * 4 - 1)
  /\ scaledWidth * scaledHeight * 4 <= Len(blurOutput)
  /\ args.cropWidth * args.cropHeight * 4 <= Len(dst)

\* C9: in cropAndScaleDown and in scaleUp, for every geometry that
\* validation accepts, the neighbours of every destination pixel satisfy
\* 0 <= x0 <= x1 <= srcWidth-1 and 0 <= y0 <= y1 <= srcHeight-1, every read
\* lies inside the source buffer and every write inside the destination.
NeighboursInBounds ==
  /\ Len(log) >= 1 => CropReadsInBounds
  /\ Len(log) >= 3 => ScaleUpReadsInBounds

\* the same for the calls whose region lies inside the source, the sums
\* taken as unbounded integers
NeighboursInBoundsInsideSource ==
  (/\ args.cropX + args.cropWidth <= args.srcWidth
   /\ args.cropY + args.cropHeight <= args.srcHeight) => NeighboursInBounds

\* bilinear interpolation of four samples with weights xFrac and yFrac
Weighted(a00, a10, a01, a11, xFrac, yFrac) ==
  LET xw == RSub(Int2R(1), xFrac)
      yw == RSub(Int2R(1), yFrac)
  IN RAdd(RAdd(RMul(RMul(xw, yw), Int2R(a00)), RMul(RMul(xFrac, yw), Int2R(a10))),
          RAdd(RMul(RMul(xw, yFrac), Int2R(a01)), RMul(RMul(xFrac, yFrac), Int2R(a11))))

\* the interpolated alpha of destination pixel (x, y), clamped to [0,255]
InterpolatedAlpha(buf, offX, offY, extX, extY, srcWidth, srcHeight, dstWidth, dstHeight, x, y, u, g) ==
  LET cx == SrcCoords(offX, x, extX, dstWidth, srcWidth, u)
      cy == SrcCoords(offY, y, extY, dstHeight, srcHeight, u)
  IN RClamp(Weighted(Read(buf, (cy.c0 * srcWidth + cx.c0) * 4 + 3, g),
                     Read(buf, (cy.c0 * srcWidth + cx.c1) * 4 + 3, g),
                     Read(buf, (cy.c1 * srcWidth + cx.c0) * 4 + 3, g),
                     Read(buf, (cy.c1 * srcWidth + cx.c1) * 4 + 3, g),
                     cx.frac, cy.frac),
             Int2R(0), Int2R(255))

CropAlpha(x, y) ==
  InterpolatedAlpha(src, args.cropX, args.cropY, args.cropWidth, args.cropHeight,
                    args.srcWidth, args.srcHeight, scaledWidth, scaledHeight, x, y,
                    ub.cast, ub.byte)

ScaleUpAlpha(x, y) ==
  InterpolatedAlpha(blurOutput, 0, 0, scaledWidth, scaledHeight, scaledWidth, scaledHeight,
                    args.cropWidth, args.cropHeight, x, y, NoUB, NoUB)

\* C10 as stated: the alpha of every output pixel of both resamplers is the
\* bilinear interpolation of the neighbours' alpha bytes, rounded to the
\* nearest integer.
AlphaRounded ==
  /\ Len(log) = 1 =>
       \A x \in 0..(scaledWidth - 1), y \in 0..(scaledHeight - 1) :
         scaledInput[(y * scaledWidth + x) * 4 + 4] = RoundNearest(CropAlpha(x, y))
  /\ Len(log) = 3 =>
       \A x \in 0..(args.cropWidth - 1), y \in 0..(args.cropHeight - 1) :
         dst[(y * args.cropWidth + x) * 4 + 4] = RoundNearest(ScaleUpAlpha(x, y))

\* C10 amended: the alpha of every output pixel of both resamplers is the
\* bilinear interpolation of the neighbours' alpha bytes (no gamma
\* transform), clamped to [0,255] and truncated toward zero.
AlphaTruncated ==
  /\ Len(log) = 1 =>
       \A x \in 0..(scaledWidth - 1), y \in 0..(scaledHeight - 1) :
         scaledInput[(y * scaledWidth + x) * 4 + 4] = Trunc(CropAlpha(x, y))
  /\ Len(log) = 3 =>
       \A x \in 0..(args.cropWidth - 1), y \in 0..(args.cropHeight - 1) :
         dst[(y * args.cropWidth + x) * 4 + 4] = Trunc(ScaleUpAlpha(x, y))

\* C10 witness: the downscale has stored 127 for an alpha interpolated to
\* 127.5 between a transparent and an opaque pixel.
WitnessAlphaTruncated ==
  /\ Len(log) = 1
  /\ \E x \in 0..(scaledWidth - 1), y \in 0..(scaledHeight - 1) :
       /\ CropAlpha(x, y) = <<255, 2>>
       /\ scaledInput[(y * scaledWidth + x) * 4 + 4] = 127

(***************************************************************************)
(* C11.  Downscale of a black and white row to one pixel.                  *)
(***************************************************************************)
\* the sRGB encoding of the average of the linear intensities of the bytes a, b
LinearAverage(a, b) ==
  toSrgb(RMul(Int2R(srgbToLinear[a + 1] + srgbToLinear[b + 1]), <<1, 2>>))

\* the call resamples the whole of a 2x1 source, a pure black pixel next to a
\* pure white one, down to a single pixel, and the downscale has run
BlackWhiteRowToOnePixel ==
  /\ Len(log) = 1
  /\ args.srcWidth = 2 /\ args.srcHeight = 1
  /\ args.cropX = 0 /\ args.cropY = 0
  /\ args.cropWidth = 2 /\ args.cropHeight = 1
  /\ src = <<0, 0, 0, 255, 255, 255, 255, 255>>
  /\ scaledWidth = 1 /\ scaledHeight = 1

\* C11: resampling a 2x1 row of pure black and pure white down to one pixel
\* gives R, G and B equal to the sRGB encoding of the average of the two
\* linear intensities (about 188: neither 127/128 nor an endpoint's own
\* value) and alpha 255.
MidpointIsLinearAverage ==
  BlackWhiteRowToOnePixel =>
    /\ LinearAverage(0, 255) \in 186..190
    /\ SubSeq(scaledInput, 1, 4) =
         <<LinearAverage(0, 255), LinearAverage(0, 255), LinearAverage(0, 255), 255>>

\* what the downscale stores in that case: the left pixel, the black one
MidpointIsLeftPixel ==
  BlackWhiteRowToOnePixel => SubSeq(scaledInput, 1, 4) = <<0, 0, 0, 255>>

\* the case of MidpointIsLeftPixel is reached
WitnessMidpointIsLeftPixel ==
  BlackWhiteRowToOnePixel /\ scaledInput[1] = 0

\* where a destination pixel does fall half way between a white pixel and a
\* black one, the downscale stores the encoding of the linear average
HalfwayIsLinearAverage ==
  Len(log) = 1 /\ ub.cast = NoUB /\ ub.byte = NoUB /\ args.srcHeight = 1
    /\ src = Image("blackwhite", args.srcWidth, 1) =>
    \A x \in 0..(scaledWidth - 1) :
      LET cx == SrcCoords(args.cropX, x, args.cropWidth, scaledWidth, args.srcWidth, NoUB)
      IN cx.frac = <<1, 2>> /\ cx.c1 # cx.c0 => scaledInput[x * 4 + 1] = LinearAverage(0, 255)

(***************************************************************************)
(* Calls from several threads.  gBuffers is thread_local, one instance per *)
(* thread, and lives as long as the thread: a call finds in it what the    *)
(* thread's earlier calls left.  In the specification SpecThreads every    *)
(* variable holds one value per thread, and log[t] holds the calls and     *)
(* steps of thread t in order.                                             *)
(***************************************************************************)
MaxCalls == 3

Threads == {"t1", "t2"}

\* the instance of gBuffers that thread t uses
gBuffers(t) == t

\* the whole of a w x h source
FullGeom(w, h) ==
  [srcWidth |-> w, srcHeight |-> h, cropX |-> 0, cropY |-> 0, cropWidth |-> w, cropHeight |-> h]

\* a region that starts at the last word value in an empty source row: the
\* sum of line 303 wraps to 0
WrappedReadGeom ==
  [srcWidth |-> 0, srcHeight |-> 1, cropX |-> WordMod - 1, cropY |-> 0,
   cropWidth |-> 1, cropHeight |-> 1]

\* a region whose sum of line 303 wraps to srcWidth and whose byte count
\* cropWidth * cropHeight * 4 is the word modulus
WrappedSizeGeom ==
  [srcWidth |-> MaxDim, srcHeight |-> 2, cropX |-> WordMod - (WordMod \div 8) + MaxDim,
   cropY |-> 0, cropWidth |-> WordMod \div 8, cropHeight |-> 2]

FullScale == [radius |-> MinRadius, scale |-> <<1, 1>>]

\* the calls the threads make: two sizes of two images, a call that fails
\* validation, and the two wrapped regions
ThreadCalls ==
  {[a |-> MkArgs(BasePtr, g, FullScale, BaseFade), p |-> p] :
     g \in {BaseGeom, FullGeom(2, 1)}, p \in {"checker", "blackwhite"}}
  \cup {[a |-> MkArgs(BasePtr, BaseGeom, [radius |-> MinRadius - 1, scale |-> <<1, 1>>], BaseFade),
         p |-> "checker"],
        [a |-> MkArgs(BasePtr, WrappedReadGeom, FullScale, BaseFade), p |-> "checker"],
        [a |-> MkArgs(BasePtr, WrappedSizeGeom, FullScale, BaseFade), p |-> "checker"]}

\* the number of calls made so far by thread t
CallsOf(t) == Cardinality({i \in DOMAIN log[t] : log[t][i] = "backgroundBlur"})

\* the number of bytes the steps of thread t's call read and write in each
\* scratch buffer
ScratchNeed(t) == scaledWidth[t] * scaledHeight[t] * 4

\* the bytes a step finds from data() on: past the end of a vector shorter
\* than size lie bytes of other objects, read as g
Heap(buf, size, g) ==
  IF Len(buf) < size THEN buf \o [i \in 1..(size - Len(buf)) |-> g] ELSE buf

\* the vector after a step wrote through data(): it keeps its size, and what
\* was written past its end is in other objects
Kept(buf, written) == SubSeq(written, 1, Len(buf))

InitThreads ==
  /\ pc = [t \in Threads |-> "idle"]
  /\ args = [t \in Threads |-> NoArgs]
  /\ src = [t \in Threads |-> <<>>]
  /\ dst = [t \in Threads |-> <<>>]
  /\ scaledInput = [t \in Threads |-> <<>>]
  /\ blurOutput = [t \in Threads |-> <<>>]
  /\ scaledWidth = [t \in Threads |-> 0]
  /\ scaledHeight = [t \in Threads |-> 0]
  /\ scaledRadius = [t \in Threads |-> 0]
  /\ ret = [t \in Threads |-> FALSE]
  /\ diag = [t \in Threads |-> ""]
  /\ ub = [t \in Threads |-> [cast |-> NoUB, byte |-> NoUB]]
  /\ log = [t \in Threads |-> <<>>]

\* entry of backgroundBlur on thread t with its own src and dst; the thread
\* is idle or back from its previous call
ThreadBackgroundBlur(t, a, p) ==
  /\ pc[t] \in {"idle", "returned"}
  /\ args' = [args EXCEPT ![t] = a]
  /\ src' = [src EXCEPT ![t] = Image(p, a.srcWidth, a.srcHeight)]
  /\ dst' = [dst EXCEPT ![t] = [i \in 1..(a.cropWidth * a.cropHeight * 4) |-> Unwritten]]
  /\ diag' = [diag EXCEPT ![t] = ValidationFailure(a)]
  /\ log' = [log EXCEPT ![t] = Append(@, "backgroundBlur")]
  /\ ub' = [ub EXCEPT ![t] = [cast |-> NoUB, byte |-> NoUB]]
  /\ IF ValidationFailure(a) # "ok"
       THEN /\ ret' = [ret EXCEPT ![t] = FALSE]
            /\ pc' = [pc EXCEPT ![t] = "returned"]
            /\ UNCHANGED <<scaledInput, blurOutput, scaledWidth, scaledHeight>>
       ELSE LET w == ScaledExtent(a.cropWidth, a.scale)
                h == ScaledExtent(a.cropHeight, a.scale)
                b == gBuffers(t)
                bufs == ensureCapacity([scaledInput |-> scaledInput[b], blurOutput |-> blurOutput[b]],
                                       ScaledSize(w, h), ScaledSize(w, h))
            IN /\ scaledWidth' = [scaledWidth EXCEPT ![t] = w]
               /\ scaledHeight' = [scaledHeight EXCEPT ![t] = h]
               /\ scaledInput' = [scaledInput EXCEPT ![b] = bufs.scaledInput]
               /\ blurOutput' = [blurOutput EXCEPT ![b] = bufs.blurOutput]
               /\ pc' = [pc EXCEPT ![t] = Steps[1]]
               /\ ret' = [ret EXCEPT ![t] = FALSE]
  /\ UNCHANGED scaledRadius

ThreadCall(t) ==
  /\ pc[t] \in {"idle", "returned"}
  /\ CallsOf("t1") + CallsOf("t2") < MaxCalls
  /\ \E c \in ThreadCalls : ThreadBackgroundBlur(t, c.a, c.p)

\* the bookkeeping common to the four steps of thread t
ThreadAdvance(t, s) ==
  /\ pc[t] = s
  /\ log' = [log EXCEPT ![t] = Append(@, s)]
  /\ pc' = [pc EXCEPT ![t] = After(StepNo(s))]
  /\ ret' = [ret EXCEPT ![t] = (After(StepNo(s)) = "returned")]
  /\ UNCHANGED <<args, src, diag, scaledWidth, scaledHeight>>

\* Step 1 on thread t.  Writing past the end of a scratch buffer that is too
\* short is undefined behaviour: the process dies (ThreadCrash) or goes on.
ThreadCropAndScaleDown(t) ==
  LET b == gBuffers(t)
      a == args[t]
      short == Len(scaledInput[b]) < ScratchNeed(t)
  IN /\ ThreadAdvance(t, "cropAndScaleDown")
     /\ \E u \in IF CastOutOfRange(a, scaledWidth[t], scaledHeight[t]) THEN UBCastResults ELSE {NoUB} :
          \E g \in IF ~short /\ ReadIndices(a.cropX, a.cropY, a.cropWidth, a.cropHeight,
                                            a.srcWidth, a.srcHeight, scaledWidth[t], scaledHeight[t], u)
                                  \subseteq 0..(Len(src[t]) - 1)
                     THEN {NoUB} ELSE GarbageBytes :
            /\ ub' = [ub EXCEPT ![t] = [cast |-> u, byte |-> g]]
            /\ scaledInput' =
                 [scaledInput EXCEPT ![b] =
                    Kept(@, cropAndScaleDown(src[t], a.srcWidth, a.srcHeight,
                                             a.cropX, a.cropY, a.cropWidth, a.cropHeight,
                                             Heap(@, ScratchNeed(t), g),
                                             scaledWidth[t], scaledHeight[t], u, g))]
     /\ UNCHANGED <<dst, blurOutput, scaledRadius>>

\* the process dies in step 1 of thread t, writing past the end of scaledInput
ThreadCrash(t) ==
  /\ pc[t] = "cropAndScaleDown"
  /\ Len(scaledInput[gBuffers(t)]) < ScratchNeed(t)
  /\ pc' = [x \in Threads |-> "crashed"]
  /\ UNCHANGED <<args, src, dst, scaledInput, blurOutput, scaledWidth, scaledHeight,
                 scaledRadius, ret, diag, ub, log>>

\* Step 2 on thread t
ThreadBlur(t) ==
  LET b == gBuffers(t)
      g == ub[t].byte
  IN /\ ThreadAdvance(t, "blur")
     /\ scaledRadius' = [scaledRadius EXCEPT ![t] = ScaledRadius(args[t].radius, args[t].scale)]
     /\ blurOutput' =
          [blurOutput EXCEPT ![b] =
             Kept(@, blur(Heap(scaledInput[b], ScratchNeed(t), g), Heap(@, ScratchNeed(t), g),
                          scaledWidth[t], scaledHeight[t], 4,
                          ScaledRadius(args[t].radius, args[t].scale)))]
     /\ UNCHANGED <<dst, scaledInput, ub>>

\* Step 3 on thread t
ThreadScaleUp(t) ==
  /\ ThreadAdvance(t, "scaleUp")
  /\ dst' = [dst EXCEPT ![t] =
               scaleUp(Heap(blurOutput[gBuffers(t)], ScratchNeed(t), ub[t].byte),
                       scaledWidth[t], scaledHeight[t],
                       @, args[t].cropWidth, args[t].cropHeight, NoUB, NoUB)]
  /\ UNCHANGED <<scaledInput, blurOutput, scaledRadius, ub>>

\* Step 4 on thread t
ThreadApplyProgressiveMask(t) ==
  /\ ThreadAdvance(t, "applyProgressiveMask")
  /\ dst' = [dst EXCEPT ![t] =
               applyProgressiveMask(@, args[t].cropWidth, args[t].cropHeight,
                                    args[t].progressiveDir, args[t].fadeStart, args[t].fadeEnd)]
  /\ UNCHANGED <<scaledInput, blurOutput, scaledRadius, ub>>

NextThreads ==
  \E t \in Threads :
    \/ ThreadCall(t)
    \/ ThreadCropAndScaleDown(t)
    \/ ThreadCrash(t)
    \/ ThreadBlur(t)
    \/ ThreadScaleUp(t)
    \/ ThreadApplyProgressiveMask(t)

SpecThreads == InitThreads /\ [][NextThreads]_vars

(***************************************************************************)
(* C12, C13.  Scratch buffers across calls and threads.                    *)
(***************************************************************************)
\* thread t is about to run a step that uses the scratch buffers
AtScratchStep(t) == pc[t] \in {"cropAndScaleDown", "blur", "scaleUp"}

\* the region of the call lies inside its source, in unbounded arithmetic
InsideSource(a) ==
  /\ a.cropX + a.cropWidth <= a.srcWidth
  /\ a.cropY + a.cropHeight <= a.srcHeight

\* C12: across any sequence of calls on one thread, the size of each scratch
\* buffer never decreases, a call that fails validation leaves both sizes
\* unchanged, and whenever the downscale, blur or upscale step of a call is
\* about to run, each scratch buffer of the thread holds at least
\* scaledWidth * scaledHeight * 4 bytes.
ScratchGrowsAndSuffices ==
  [][\A t \in Threads :
       /\ Len(scaledInput'[gBuffers(t)]) >= Len(scaledInput[gBuffers(t)])
       /\ Len(blurOutput'[gBuffers(t)]) >= Len(blurOutput[gBuffers(t)])
       /\ (pc'[t] = "returned" /\ ~ret'[t] /\ log'[t] # log[t]) =>
            /\ Len(scaledInput'[gBuffers(t)]) = Len(scaledInput[gBuffers(t)])
            /\ Len(blurOutput'[gBuffers(t)]) = Len(blurOutput[gBuffers(t)])
       /\ AtScratchStep(t)' =>
            /\ Len(scaledInput'[gBuffers(t)]) >= ScratchNeed(t)'
            /\ Len(blurOutput'[gBuffers(t)]) >= ScratchNeed(t)']_vars

\* the same for the calls whose region does lie inside the source
ScratchGrowsAndSufficesInsideSource ==
  [][\A t \in Threads :
       /\ Len(scaledInput'[gBuffers(t)]) >= Len(scaledInput[gBuffers(t)])
       /\ Len(blurOutput'[gBuffers(t)]) >= Len(blurOutput[gBuffers(t)])
       /\ (pc'[t] = "returned" /\ ~ret'[t] /\ log'[t] # log[t]) =>
            /\ Len(scaledInput'[gBuffers(t)]) = Len(scaledInput[gBuffers(t)])
            /\ Len(blurOutput'[gBuffers(t)]) = Len(blurOutput[gBuffers(t)])
       /\ (AtScratchStep(t)' /\ InsideSource(args'[t])) =>
            /\ Len(scaledInput'[gBuffers(t)]) >= ScratchNeed(t)'
            /\ Len(blurOutput'[gBuffers(t)]) >= ScratchNeed(t)']_vars

\* a thread is at a scratch step of a call whose buffers an earlier, larger
\* call of the same thread sized
WitnessScratchReused ==
  \E t \in Threads :
    /\ AtScratchStep(t)
    /\ InsideSource(args[t])
    /\ Len(scaledInput[gBuffers(t)]) > ScratchNeed(t)

\* the call of thread t returned true
ThreadSucceeded(t) == pc[t] = "returned" /\ ret[t]

\* C13: the dst of a successful call is a function of the call's arguments
\* only: two calls with identical inputs end with identical dst, whatever
\* earlier calls left in the scratch buffers and however the calls of other
\* threads interleave.
IdenticalCallsIdenticalDst ==
  \A s \in Threads, t \in Threads :
    (ThreadSucceeded(s) /\ ThreadSucceeded(t) /\ args[s] = args[t] /\ src[s] = src[t]) =>
      dst[s] = dst[t]

\* the same for the calls whose region does lie inside the source
IdenticalCallsInsideSourceIdenticalDst ==
  \A s \in Threads, t \in Threads :
    (ThreadSucceeded(s) /\ ThreadSucceeded(t) /\ args[s] = args[t] /\ src[s] = src[t]
       /\ InsideSource(args[s])) =>
      dst[s] = dst[t]

\* two threads ended identical calls inside the source, one of them on
\* scratch buffers that an earlier, larger call had filled
WitnessIdenticalCallsAfterLargerCall ==
  /\ ThreadSucceeded("t1") /\ ThreadSucceeded("t2")
  /\ args["t1"] = args["t2"] /\ src["t1"] = src["t2"]
  /\ InsideSource(args["t1"])
  /\ CallsOf("t1") = 2 /\ CallsOf("t2") = 1
  /\ Len(scaledInput[gBuffers("t1")]) > ScratchNeed("t1")

(***************************************************************************)
(* Blur kernels of x86.cpp.  In the specification SpecKernels the          *)
(* variables hold the state of one kernel call: args the arguments (x1 is  *)
(* the loop variable of the code and advances; first keeps its value at    *)
(* entry), dst the pixel slots from the dst pointer on, log the weight     *)
(* indices and input pixels read and the slots written so far, ub.byte the *)
(* value found by a read outside the arrays the arguments describe.        *)
(* Sums are exact; the conversion _mm_cvtps_epi32 follows the default      *)
(* rounding mode of MXCSR, round to nearest with ties to even.             *)
(***************************************************************************)
MaxPixels == 5

VFU4 == "rsdIntrinsicBlurVFU4_K"
HFU4 == "rsdIntrinsicBlurHFU4_K"
HFU1 == "rsdIntrinsicBlurHFU1_K"

KernelRadii == {MinRadius, 2, 3, MaxRadius}

\* the sum of the rationals f[lo], ..., f[hi]
RECURSIVE RSum(_, _, _)
RSum(f, lo, hi) ==
  IF lo > hi THEN Int2R(0)
  ELSE IF lo = hi THEN f[lo]
  ELSE RAdd(RSum(f, lo, (lo + hi) \div 2), RSum(f, ((lo + hi) \div 2) + 1, hi))

\* weight r of the caller's normalized weight array of 2 * radius + 1 entries
Weight(kind, radius, r) ==
  IF kind = "uniform" THEN <<1, 2 * radius + 1>>
  ELSE Norm(radius + 1 - Abs(r - radius), (radius + 1) * (radius + 1))

\* channel c of input sample i
PinValue(pattern, i, c) ==
  IF pattern = "step" THEN (IF i % 3 = 0 THEN 127 ELSE 128) + 20 * c
  ELSE 125 + 2 * (i % 3) + 20 * c

\* _mm_cvtps_epi32 of v >= 0: the nearest integer, the even one at a tie
cvtps_epi32(v) ==
  LET lo == v[1] \div v[2]
      twice == 2 * (v[1] % v[2])
  IN IF twice < v[2] THEN lo
     ELSE IF twice > v[2] THEN lo + 1
     ELSE IF lo % 2 = 0 THEN lo ELSE lo + 1

\* _mm_shuffle_epi8(o, Mu8): the low byte of a 32-bit lane
LowByte(n) == n % 256

\* *((const float *)gptr + r)
gptrAt(a, r, g) == IF r < a.rct THEN Weight(a.weights, a.radius, r) ELSE Int2R(g)

\* channel c of the float pixel i of a horizontal kernel's row; the row the
\* arguments describe ends with pixel x2 - 1 + rct - 1
pinAt(a, i, c, g) ==
  IF i <= a.x2 - 1 + a.rct - 1 THEN Int2R(PinValue(a.pattern, i, c)) ELSE Int2R(g)

\* channel c of the byte pixel in column x of row r of the vertical kernel's
\* input, rows being stride bytes apart; the columns the arguments describe
\* end with x2 - 1
pinRowAt(a, r, x, c, g) ==
  IF x <= a.x2 - 1 /\ r < a.rct THEN Int2R(PinValue(a.pattern, r + x, c)) ELSE Int2R(g)

\* the taps the inner loop of the 4-channel horizontal kernel uses: tap 0,
\* then r and r + 1 for r = 1, 3, ... below rct
TapsHFU4(rct) == {0} \cup UNION {{r, r + 1} : r \in {q \in 1..(rct - 1) : q % 2 = 1}}

\* the weights the inner loop of the 1-channel kernel loads: weight 0, then
\* r .. r + 3 for r = 1, 5, ... below rct
TapsHFU1(rct) == {0} \cup UNION {r..(r + 3) : r \in {q \in 1..(rct - 1) : q % 4 = 1}}

\* the floats of the row the 1-channel kernel loads for the group at x:
\* pi[0..3], then pi[r .. r+7] for r = 1, 5, ... below rct
LoadsHFU1(rct, x) ==
  (x..(x + 3)) \cup UNION {(x + r)..(x + r + 7) : r \in {q \in 1..(rct - 1) : q % 4 = 1}}

\* the last of the taps S
LastTap(S) == CHOOSE m \in S : \A q \in S : q <= m

\* the weighted sum over the taps 0 .. n - 1 of channel c at pixel x
TapSum(a, n, x, c, g) ==
  RSum([r \in 0..(n - 1) |-> RMul(gptrAt(a, r, g), pinAt(a, x + r, c, g))], 0, n - 1)

KernelArgs ==
  [kernel : {VFU4, HFU4, HFU1}, radius : KernelRadii, first : 0..1, count : 1..MaxPixels,
   weights : {"uniform", "triangular"}, pattern : {"step", "ramp"}]

InitKernels ==
  /\ pc = "loop"
  /\ \E k \in KernelArgs :
       args = [kernel |-> k.kernel, radius |-> k.radius, rct |-> 2 * k.radius + 1,
               first |-> k.first, x1 |-> k.first, x2 |-> k.first + k.count,
               weights |-> k.weights, pattern |-> k.pattern]
  /\ dst = [k \in 1..(MaxPixels + 4) |-> Unwritten]
  /\ log = [gptr |-> {}, pin |-> {}, dst |-> {}]
  /\ \E g \in GarbageBytes : ub = [cast |-> NoUB, byte |-> g]
  /\ src = <<>>
  /\ scaledInput = <<>>
  /\ blurOutput = <<>>
  /\ scaledWidth = 0
  /\ scaledHeight = 0
  /\ scaledRadius = 0
  /\ ret = FALSE
  /\ diag = ""

\* the end of one pass of the outer loop, which went on from x1 to next
KernelLoop(next) ==
  /\ args' = [args EXCEPT !.x1 = next]
  /\ pc' = IF next < args.x2 THEN "loop" ELSE "returned"
  /\ UNCHANGED <<src, scaledInput, blurOutput, scaledWidth, scaledHeight, scaledRadius,
                 ret, diag, ub>>

\* the four bytes the 4-channel horizontal kernel stores for pixel x
PixelHFU4(a, x, g) ==
  [c \in 1..4 |-> LowByte(cvtps_epi32(TapSum(a, LastTap(TapsHFU4(a.rct)) + 1, x, c - 1, g)))]

\* one pass of the outer loop of rsdIntrinsicBlurHFU4_K: one pixel
rsdIntrinsicBlurHFU4_K ==
  /\ pc = "loop" /\ args.kernel = HFU4 /\ args.x1 < args.x2
  /\ LET x == args.x1
         slot == x - args.first
     IN /\ dst' = [dst EXCEPT ![slot + 1] = PixelHFU4(args, x, ub.byte)]
        /\ log' = [gptr |-> log.gptr \cup TapsHFU4(args.rct),
                   pin |-> log.pin \cup {x + r : r \in TapsHFU4(args.rct)},
                   dst |-> log.dst \cup {slot}]
  /\ KernelLoop(args.x1 + 1)

\* the byte the 1-channel horizontal kernel stores for lane j of the group at x
ByteHFU1(a, x, j, g) ==
  LowByte(cvtps_epi32(TapSum(a, LastTap(TapsHFU1(a.rct)) + 1, x + j, 0, g)))

\* one pass of the outer loop of rsdIntrinsicBlurHFU1_K: four pixels
rsdIntrinsicBlurHFU1_K ==
  /\ pc = "loop" /\ args.kernel = HFU1 /\ args.x1 < args.x2
  /\ LET x == args.x1
         slot == x - args.first
     IN /\ dst' = [k \in DOMAIN dst |->
                     IF k - 1 \in slot..(slot + 3) THEN ByteHFU1(args, x, k - 1 - slot, ub.byte)
                     ELSE dst[k]]
        /\ log' = [gptr |-> log.gptr \cup TapsHFU1(args.rct),
                   pin |-> log.pin \cup LoadsHFU1(args.rct, x),
                   dst |-> log.dst \cup (slot..(slot + 3))]
  /\ KernelLoop(args.x1 + 4)

\* the four floats the vertical kernel stores for the pixel in column x
PixelVFU4(a, x, g) ==
  [c \in 1..4 |->
     RSum([r \in 0..(a.rct - 1) |-> RMul(gptrAt(a, r, g), pinRowAt(a, r, x, c - 1, g))],
          0, a.rct - 1)]

\* one pass of the outer loop of rsdIntrinsicBlurVFU4_K: two pixels
rsdIntrinsicBlurVFU4_K ==
  /\ pc = "loop" /\ args.kernel = VFU4 /\ args.x1 < args.x2
  /\ LET x == args.x1
         slot == x - args.first
     IN /\ dst' = [k \in DOMAIN dst |->
                     IF k - 1 \in slot..(slot + 1) THEN PixelVFU4(args, x + (k - 1 - slot), ub.byte)
                     ELSE dst[k]]
        /\ log' = [gptr |-> log.gptr \cup (0..(args.rct - 1)),
                   pin |-> log.pin \cup {<<r, x + j>> : r \in 0..(args.rct - 1), j \in 0..1},
                   dst |-> log.dst \cup (slot..(slot + 1))]
  /\ KernelLoop(args.x1 + 2)

NextKernels ==
  \/ rsdIntrinsicBlurVFU4_K
  \/ rsdIntrinsicBlurHFU4_K
  \/ rsdIntrinsicBlurHFU1_K

SpecKernels == InitKernels /\ [][NextKernels]_vars

(***************************************************************************)
(* C14, C15.  Results and footprint of the kernels.                        *)
(***************************************************************************)
\* the weighted sum of channel c over the taps 0 .. rct - 1 at pixel x, from
\* the weights and the row themselves
FootprintSum(x, c) ==
  RSum([r \in 0..(args.rct - 1) |->
          RMul(Weight(args.weights, args.radius, r), Int2R(PinValue(args.pattern, x + r, c)))],
       0, args.rct - 1)

\* the slots the 4-channel horizontal kernel has written: pixels first .. x1 - 1
WrittenHFU4 == 0..(args.x1 - args.first - 1)

\* C14: for every odd tap count rct = 2 * radius + 1 and every x in [x1, x2),
\* rsdIntrinsicBlurHFU4_K writes for each channel the sum of
\* weight[r] * in[x + r][c] over exactly the taps r = 0 .. rct - 1, converted
\* to an 8-bit integer by truncation toward zero (127.6 is stored as 127).
HFU4WritesTruncatedSum ==
  args.kernel = HFU4 =>
    \A k \in WrittenHFU4 :
      dst[k + 1] = [c \in 1..4 |-> Trunc(FootprintSum(args.first + k, c - 1))]

\* what the kernel writes: the sum over exactly those taps, rounded to the
\* nearest integer with ties to even
HFU4WritesRoundedSum ==
  args.kernel = HFU4 =>
    \A k \in WrittenHFU4 :
      dst[k + 1] = [c \in 1..4 |-> cvtps_epi32(FootprintSum(args.first + k, c - 1))]

\* the kernel has stored 128 for a sum strictly between 127.5 and 128
WitnessHFU4RoundedUp ==
  /\ args.kernel = HFU4
  /\ \E k \in WrittenHFU4 :
       /\ RLt(<<255, 2>>, FootprintSum(args.first + k, 0))
       /\ RLt(FootprintSum(args.first + k, 0), Int2R(128))
       /\ dst[k + 1][1] = 128

\* the input pixels x + r with x in [first, x2) and r in [0, rct): the floats
\* of a horizontal kernel's row, the <<row, column>> pairs of the vertical one
PinFootprint ==
  IF args.kernel = VFU4
    THEN {<<r, x>> : r \in 0..(args.rct - 1), x \in args.first..(args.x2 - 1)}
    ELSE {x + r : x \in args.first..(args.x2 - 1), r \in 0..(args.rct - 1)}

\* every access so far lies inside the footprint the arguments describe
InFootprint ==
  /\ log.gptr \subseteq 0..(args.rct - 1)
  /\ log.pin \subseteq PinFootprint
  /\ log.dst \subseteq 0..(args.x2 - args.first - 1)

\* C15: each kernel, called with rct = 2 * radius + 1 for a radius in [1,25]
\* and a range x1 < x2, reads only weights with index in [0, rct), reads only
\* input pixels x + r with x in [x1, x2) and r in [0, rct), and writes only the
\* output slots of the x2 - x1 pixels x1 .. x2 - 1.
KernelsStayInFootprint == InFootprint

\* the 4-channel horizontal kernel does stay inside it, and so does the
\* vertical kernel when x2 - x1 is even
AlignedKernelsStayInFootprint ==
  (args.kernel = HFU4 \/ (args.kernel = VFU4 /\ (args.x2 - args.first) % 2 = 0)) => InFootprint

\* the 1-channel horizontal kernel never returns from a call without having
\* left the footprint
HFU1LeavesFootprint ==
  (args.kernel = HFU1 /\ pc = "returned") => ~InFootprint

\* a kernel has returned from a call with an odd number of pixels
WitnessKernelOddCount ==
  pc = "returned" /\ (args.x2 - args.first) % 2 = 1

(***************************************************************************)
(* C16.  Premultiplied alpha through the resampler and the mask.           *)
(***************************************************************************)
\* R <= A, G <= A and B <= A in each of the first n pixels of buf
Premultiplied(buf, n) ==
  \A k \in 0..(n - 1) : \A c \in 1..3 : buf[4 * k + c] <= buf[4 * k + 4]

\* the downscale, given a premultiplied source, writes premultiplied pixels
DownscaleKeepsPremultiplied ==
  (pc = "cropAndScaleDown" /\ pc' = After(1) /\ Premultiplied(src, Len(src) \div 4)) =>
    Premultiplied(scaledInput', scaledWidth * scaledHeight)

\* the upscale, given a premultiplied blurred image, writes premultiplied pixels
UpscaleKeepsPremultiplied ==
  (pc = "scaleUp" /\ pc' = After(3) /\ Premultiplied(blurOutput, scaledWidth * scaledHeight)) =>
    Premultiplied(dst', args.cropWidth * args.cropHeight)

\* the mask, given a premultiplied image, leaves premultiplied pixels
MaskKeepsPremultiplied ==
  (pc = "applyProgressiveMask" /\ pc' = After(4)
     /\ Premultiplied(dst, args.cropWidth * args.cropHeight)) =>
    Premultiplied(dst', args.cropWidth * args.cropHeight)

\* C16: if every pixel of its input satisfies R <= A, G <= A and B <= A, then
\* every pixel written by cropAndScaleDown, by scaleUp and by
\* applyProgressiveMask satisfies them too.
ResamplerAndMaskKeepPremultiplied ==
  [][DownscaleKeepsPremultiplied /\ UpscaleKeepsPremultiplied /\ MaskKeepsPremultiplied]_vars

\* the three parts of C16, one by one
DownscaleAlwaysKeepsPremultiplied == [][DownscaleKeepsPremultiplied]_vars

UpscaleAlwaysKeepsPremultiplied == [][UpscaleKeepsPremultiplied]_vars

MaskAlwaysKeepsPremultiplied == [][MaskKeepsPremultiplied]_vars

\* the mask has scaled a premultiplied image some of whose pixels are neither
\* opaque nor empty
WitnessMaskOnPremultiplied ==
  /\ Len(log) = 4
  /\ args.progressiveDir # NONE
  /\ Premultiplied(dst, args.cropWidth * args.cropHeight)
  /\ \E k \in 0..(args.cropWidth * args.cropHeight - 1) : dst[4 * k + 4] \in 1..254

\* the upscale to three pixels of two premultiplied pixels, a bright one
\* next to a faint one
UpscaleOfFadingPair ==
  scaleUp(<<191, 191, 191, 191, 63, 63, 63, 63>>, 2, 1, [i \in 1..12 |-> Unwritten], 3, 1, NoUB, NoUB)

\* that upscale is premultiplied
UpscaleOfFadingPairPremultiplied == Premultiplied(UpscaleOfFadingPair, 3)

====
